---- MODULE Spec2Model ----
(***************************************************************************)
(* Chunk / conversation job state machine of the transcriber backend:      *)
(* routers/transcriptions.py, routers/conversations.py and the pipeline    *)
(* entry points of services/transcriber.py.                                *)
(*                                                                         *)
(* One conversation (id 1) and up to MaxChunks chunk records.  Every HTTP  *)
(* handler is one action.  A background task (process_transcription) is    *)
(* two actions: StartTask (the commit of status "processing") and          *)
(* FinishTask (pipeline call, commit of the outcome, conversation          *)
(* refresh).                                                               *)
(*                                                                         *)
(*   Spec       the conversation, its chunks, their tasks                  *)
(*   FairSpec   Spec with every task step weakly fair                      *)
(*   RaceSpec   sibling tasks whose refresh is split into the read of the  *)
(*              conversation and its chunks and the later commit           *)
(*   UploadSpec standalone chunks (POST /api/upload)                       *)
(*   RetrySpec  the retry endpoint with its rejections                     *)
(*   TraceSpec  chunks of every requested language; lastOp keeps which     *)
(*              engines each attempt called and with which language        *)
(*   PipelineSpec  transcribe and transcribe_with_diarization called on    *)
(*              their own, with the temporary files they create and unlink *)
(*   SpeakerSpec   _find_speaker_for_segment on segments and turn lists    *)
(*                                                                         *)
(* Outside TraceSpec conversations are created with the default language   *)
(* "auto" and lastOp keeps of an attempt only which engine failed.  call   *)
(* is the library call of PipelineSpec and SpeakerSpec.                    *)
(*                                                                         *)
(* Each engine call returns or raises on its own: the ASR call of the      *)
(* fallback need not do what the first ASR call did.  Persistence and file *)
(* storage are taken as reliable and chunk ids as never reused.            *)
(* TranscriptionService.process_job and ConversationService have no caller *)
(* in the application and are not actions here.  lastOp is a history       *)
(* variable: the operation that ran last.  Durations are in tenths of a    *)
(* second.                                                                 *)
(***************************************************************************)
EXTENDS Integers, Sequences, FiniteSets, TLC

VARIABLES conv, chunks, nextId, tasks, enable_diarization, lastOp, call

vars == <<conv, chunks, nextId, tasks, enable_diarization, lastOp, call>>
jobVars == <<conv, chunks, nextId, tasks, enable_diarization, lastOp>>

\* ---------------------------------------------------------------- bounds
MaxChunks == 2
\* speaker assignment: times are 0..MaxTime, at most MaxTurns diarization turns
MaxTime == 4
MaxTurns == 2

\* ------------------------------------------------------------- constants
\* duration < 0.5 s short-circuits the pipeline (tenths of a second)
MinDuration == 5

NoDuration == 0 - 1
NullText == "<null>"
NoConversation == 0
TheConversation == 1

ChunkIds == 1..MaxChunks
Terminal == {"completed", "failed"}
Active == {"pending", "processing"}

\* num_speakers: 0 stands for None, 2 for a valid explicit count (1..10)
SpeakerCounts == {0, TheConversation + 1}

\* ------------------------------------------------------------- languages
\* ConversationCreate.language / Form(default="auto")
DefaultLanguage == "auto"
\* the two source languages the pipeline is built for
SupportedLanguages == {"en", "he"}
\* valid_languages of upload_audio
ValidLanguages == {DefaultLanguage} \cup SupportedLanguages
\* what a client may send: the valid codes and a code outside them
RequestLanguages == ValidLanguages \cup {"fr"}

\* ------------------------------------------------- the engines (black box)
\* what the duration probe may report: a probe failure (0.0), a short file
\* and a file long enough to transcribe
ProbeDurations == {0, MinDuration - 1, 2 * MinDuration}
\* raw ASR text: nothing, speech, a denylisted filler phrase
AsrTexts == {"", "hello there", "thank you"}
\* ASR segments, as the sequence of their end times
AsrSegments == {<< >>, <<2 * MinDuration>>}
AsrOutcomes == {"ok", "raise"}
DiarOutcomes == {"ok", "unavailable", "raise"}
\* the detector's posteriors of en and he, 0 also for a missing key (another
\* language dominates)
Probabilities == {0, 1}

\* one invocation of TranscriberService.transcribe / the try block of
\* transcribe_with_diarization: what the probe, the language detector and
\* the ASR engine do in it
Invocations == [probe : ProbeDurations, asr : AsrOutcomes,
                text : AsrTexts, segments : AsrSegments,
                en_prob : Probabilities, he_prob : Probabilities]

EmptyDiarization == "empty"
NoEvents == [asr_raised |-> FALSE, asr_produced |-> FALSE, diar_failed |-> FALSE,
             diarized_path |-> FALSE, detect_called |-> FALSE,
             diar_called |-> FALSE, filtered |-> FALSE, asr_languages |-> {}]

\* ------------------------------------------------------------- the pipeline
\* TranscriberService._is_likely_hallucination on the texts of AsrTexts: the
\* denylist rule (exact phrase, optional trailing period).  The repetition
\* rules need at least 4 words and match none of AsrTexts.
HallucinationPhrases ==
    {"thank you", "thanks for watching", "subscribe", "like and subscribe",
     "see you next time", "bye", "goodbye"}

IsLikelyHallucination(text) ==
    /\ text # ""
    /\ \E phrase \in HallucinationPhrases : text = phrase \/ text = phrase \o "."

\* the text kept after the hallucination check
FilteredText(text) == IF IsLikelyHallucination(text) THEN "" ELSE text

\* duration from the last segment's end, 0 without segments
SegmentsDuration(segments) ==
    IF segments = << >> THEN 0 ELSE segments[Len(segments)]

\* TranscriberService.detect_language_restricted: the higher of the two
\* posteriors, en on a tie
DetectLanguageRestricted(en_prob, he_prob) ==
    IF en_prob >= he_prob THEN "en" ELSE "he"

\* source_language of an invocation that reaches the ASR engine: the
\* language argument unless it is "auto"
SourceLanguage(language, inv) ==
    IF language # DefaultLanguage THEN language
    ELSE DetectLanguageRestricted(inv.en_prob, inv.he_prob)

\* source_language of the result for too-short audio
ShortSourceLanguage(language) ==
    IF language # DefaultLanguage THEN language ELSE "en"

\* the engine calls up to model.transcribe: the detector for "auto", then the
\* ASR engine with options["language"]
Engaged(language, inv, ev) ==
    [ev EXCEPT !.detect_called = @ \/ language = DefaultLanguage,
               !.asr_languages = @ \cup {SourceLanguage(language, inv)}]

Raised(error, ev) ==
    [raised |-> TRUE, error |-> error, text |-> "", language |-> "en",
     source_language |-> NullText, segments |-> << >>,
     duration |-> 0, transcript_segments |-> "absent", events |-> ev]

Returned(text, source_language, segments, duration, tseg, ev) ==
    [raised |-> FALSE, error |-> NullText, text |-> text, language |-> "en",
     source_language |-> source_language, segments |-> segments,
     duration |-> duration, transcript_segments |-> tseg, events |-> ev]

\* mutant: no duration test, the engines run on every file
TranscribeWithoutShortCircuit(language, inv) ==
    LET ev == Engaged(language, inv, NoEvents)
    IN IF inv.asr = "raise"
       THEN Raised("asr error", [ev EXCEPT !.asr_raised = TRUE])
       ELSE Returned(FilteredText(inv.text), SourceLanguage(language, inv),
                     inv.segments, SegmentsDuration(inv.segments), "absent",
                     [ev EXCEPT !.filtered = IsLikelyHallucination(inv.text)])

\* TranscriberService.transcribe: the plain path
Transcribe(language, inv) ==
    LET ev == Engaged(language, inv, NoEvents)
    IN IF inv.probe < MinDuration
       THEN Returned("", ShortSourceLanguage(language), << >>, inv.probe,
                     "absent", NoEvents)
       ELSE IF inv.asr = "raise"
       THEN Raised("asr error", [ev EXCEPT !.asr_raised = TRUE])
       ELSE Returned(FilteredText(inv.text), SourceLanguage(language, inv),
                     inv.segments, SegmentsDuration(inv.segments), "absent",
                     [ev EXCEPT !.filtered = IsLikelyHallucination(inv.text)])

\* the results of the plain path, by language argument
PlainResults ==
    [language \in RequestLanguages |->
        {Transcribe(language, inv) : inv \in Invocations}]

\* the two except branches of transcribe_with_diarization: run the plain
\* path again (fb is what that second invocation does) and attach the empty
\* diarization result; an exception of the second invocation propagates
FallBackToTranscribe(fb, ev) ==
    LET merged == [ev EXCEPT !.asr_raised = @ \/ fb.events.asr_raised,
                             !.detect_called = @ \/ fb.events.detect_called,
                             !.filtered = @ \/ fb.events.filtered,
                             !.asr_languages = @ \cup fb.events.asr_languages]
    IN IF fb.raised
       THEN [fb EXCEPT !.events = merged]
       ELSE [fb EXCEPT !.transcript_segments = EmptyDiarization, !.events = merged]

\* mutant: the diarization engine is skipped on an empty text only
SkipsDiarizationOnEmptyText(text, segments) == text = ""

\* if not result.get("text") or not result.get("segments"): the attempt
\* returns the empty diarization result without calling the engine
SkipsDiarization(text, segments) == text = "" \/ segments = << >>

\* the try block of transcribe_with_diarization: it returns a result, or an
\* engine raises in it
DiarizationTry(language, inv, diar) ==
    LET ev0 == [NoEvents EXCEPT !.diarized_path = TRUE]
        ev1 == Engaged(language, inv, ev0)
        text == FilteredText(inv.text)
        ev2 == [ev1 EXCEPT !.filtered = IsLikelyHallucination(inv.text)]
        source == SourceLanguage(language, inv)
    IN IF inv.probe < MinDuration
       THEN Returned("", ShortSourceLanguage(language), << >>, inv.probe,
                     EmptyDiarization, ev0)
       ELSE IF inv.asr = "raise"
       THEN Raised("asr error", [ev1 EXCEPT !.asr_raised = TRUE])
       ELSE IF SkipsDiarization(text, inv.segments)
       THEN Returned(text, source, inv.segments, SegmentsDuration(inv.segments),
                     EmptyDiarization, ev2)
       ELSE IF diar = "ok"
       THEN Returned(text, source, inv.segments, SegmentsDuration(inv.segments),
                     "diarized", [ev2 EXCEPT !.diar_called = TRUE])
       ELSE Raised("diarization error", [ev2 EXCEPT !.asr_produced = TRUE,
                                                    !.diar_failed = TRUE,
                                                    !.diar_called = TRUE])

\* TranscriberService.transcribe_with_diarization: the try block, and the
\* fallback when it raised
TranscribeWithDiarization(language, inv, diar, fb) ==
    LET tried == DiarizationTry(language, inv, diar)
    IN IF tried.raised THEN FallBackToTranscribe(fb, tried.events) ELSE tried

\* the results of the diarized path, by language argument
DiarizedResults ==
    [language \in RequestLanguages |->
        {TranscribeWithDiarization(language, inv, diar, fb) :
            inv \in Invocations, diar \in DiarOutcomes,
            fb \in PlainResults[language]}]

\* ------------------------------------------------------ temporary files
\* what the helpers that condition the audio do in one invocation
Conditionings ==
    [convert : {"ok", "failed"}, normalize : {"made", "failed", "skipped"},
     trim : {"made", "failed"}]

\* convert_to_wav, called for a .webm file: made is the temporary file it
\* created, kept the one it returned (a failed conversion unlinks its file)
ConvertToWav(webm, io) ==
    [made |-> IF webm THEN {"wav"} ELSE {},
     kept |-> IF webm /\ io.convert = "ok" THEN {"wav"} ELSE {}]

\* normalize_audio: no file when the volume cannot be read or is acceptable
NormalizeAudio(io) ==
    [made |-> IF io.normalize = "skipped" THEN {} ELSE {"normalized"},
     kept |-> IF io.normalize = "made" THEN {"normalized"} ELSE {}]

\* trim_silence, called when the flag is set
TrimSilence(trim_silence, io) ==
    [made |-> IF trim_silence THEN {"trimmed"} ELSE {},
     kept |-> IF trim_silence /\ io.trim = "made" THEN {"trimmed"} ELSE {}]

\* the path trim_silence returns: its file, or the path it was given when
\* ffmpeg failed
TrimmedPath(audio_path, trim_silence, io) ==
    IF TrimSilence(trim_silence, io).kept # {} THEN "trimmed" ELSE audio_path

\* mutant: the path trim_silence returned is tracked without the comparison
TracksAlways(trimmed_path, transcribe_path) == TRUE

\* if trimmed_path != transcribe_path: temp_files.append(trimmed_path)
Tracks(trimmed_path, transcribe_path) == trimmed_path # transcribe_path

\* the conditioning of one invocation up to the engines: made are the files
\* created, kept is temp_files; short is the result of the duration test;
\* "original" is audio_path
Conditioned(webm, trim_silence, short, io) ==
    LET c == ConvertToWav(webm, io)
        n == NormalizeAudio(io)
        t == TrimSilence(trim_silence, io)
        transcribe_path == IF n.kept # {} THEN "normalized"
                           ELSE IF c.kept # {} THEN "wav" ELSE "original"
        trimmed_path == TrimmedPath(transcribe_path, trim_silence, io)
    IN IF short THEN c
       ELSE [made |-> c.made \cup n.made \cup t.made,
             kept |-> c.kept \cup n.kept \cup
                        IF trim_silence /\ Tracks(trimmed_path, transcribe_path)
                        THEN {trimmed_path} ELSE {}]

\* mutant: a stage that returned no file leaves no path to go on with
StagePathOrNone(previous, kept, path) ==
    IF kept # {} THEN path ELSE NullText

\* transcribe_path after a stage: the file the stage returned when it
\* returned one, the path before it otherwise
StagePath(previous, kept, path) == IF kept # {} THEN path ELSE previous

\* transcribe_path at the engine calls; "original" is audio_path
TranscribePath(webm, trim_silence, io) ==
    LET wav_path == StagePath("original", ConvertToWav(webm, io).kept, "wav")
        normalized_path ==
            StagePath(wav_path, NormalizeAudio(io).kept, "normalized")
    IN StagePath(normalized_path, TrimSilence(trim_silence, io).kept,
                 "trimmed")

\* mutant: the diarization engine gets the submitted file
DiarizedOriginal(transcribe_path) == "original"

\* diarizer_service.diarize(transcribe_path, ...)
DiarizedPath(transcribe_path) == transcribe_path

\* mutant: the cleanup loops unlink nothing
UnlinkedNone(temp_files) == {}

\* the files the cleanup loop over temp_files unlinks
Unlinked(temp_files) == temp_files

\* what os.unlink does during one pipeline call
UnlinkOutcomes == {"ok", "fails"}

\* the files a cleanup loop removes when os.unlink works or fails
Deleted(temp_files, unlink) ==
    IF unlink = "ok" THEN Unlinked(temp_files) ELSE {}

\* the cleanup loops of transcribe call os.unlink unguarded: its exception
\* leaves the function in place of the value returned
AfterCleanup(returned, temp_files, unlink) ==
    IF unlink = "fails" /\ temp_files # {}
    THEN Raised("unlink error", returned.events)
    ELSE returned

\* the files of invocation who
Tagged(who, files) == {<<who, f>> : f \in files}

\* TranscriberService.transcribe: the temporary files it created and those
\* that exist when it returns or raises
TranscribeFiles(webm, trim_silence, short, io, unlink) ==
    LET c == Conditioned(webm, trim_silence, short, io)
    IN [made |-> Tagged("transcribe", c.made),
        left |-> Tagged("transcribe", c.kept \ Deleted(c.kept, unlink))]

\* a result without the trace of the engine calls: what the job record and
\* the status logic depend on
Outcome(r) ==
    [r EXCEPT !.source_language = NullText, !.segments = << >>,
              !.events = [NoEvents EXCEPT
                            !.asr_raised = r.events.asr_raised,
                            !.asr_produced = r.events.asr_produced,
                            !.diar_failed = r.events.diar_failed,
                            !.diarized_path = r.events.diarized_path]]

PlainOutcomes ==
    [language \in RequestLanguages |-> {Outcome(r) : r \in PlainResults[language]}]

DiarizedOutcomes ==
    [language \in RequestLanguages |->
        {Outcome(r) : r \in DiarizedResults[language]}]

\* ------------------------------------------------------------------ records
\* models.Conversation; exists is "no" before creation and "deleted" after
NoConv ==
    [exists |-> "no", status |-> "recording", total_duration_sec |-> NoDuration,
     completed_at |-> FALSE, num_speakers |-> 0, language |-> DefaultLanguage]

DeletedConv == [NoConv EXCEPT !.exists = "deleted"]

\* chunk_index of a record that has none
NoIndex == 0 - 1

\* models.Transcription as inserted by upload_audio / add_chunk
NewChunk(conversation_id, language) ==
    [conversation_id |-> conversation_id, chunk_index |-> NoIndex,
     language |-> language,
     status |-> "pending",
     transcript_text |-> NullText, detected_language |-> NullText,
     duration_sec |-> NoDuration, is_hallucination |-> FALSE,
     transcript_segments |-> NullText, error_message |-> NullText,
     completed_at |-> FALSE]

\* a queued call of process_transcription(transcription_id, db_url, num_speakers)
NewTask(id, num_speakers) ==
    [chunk |-> id, pc |-> "queued", num_speakers |-> num_speakers, eff |-> 0,
     language |-> DefaultLanguage, loaded |-> NoConv, target |-> NoConv]

Op(name, id) ==
    [op |-> name, chunk |-> id, events |-> NoEvents, source_language |-> NullText]

\* Conversation.chunks of the one conversation, in a chunk table cs
ChunksOf(cs) == {id \in DOMAIN cs : cs[id].conversation_id = TheConversation}

StatusesOf(cs) == {cs[id].status : id \in ChunksOf(cs)}

RECURSIVE SumDurations(_, _)
\* sum(chunk.duration_sec or 0 for chunk in conversation.chunks)
SumDurations(cs, ids) ==
    IF ids = {} THEN 0
    ELSE LET id == CHOOSE x \in ids : TRUE
             d == IF cs[id].duration_sec = NoDuration THEN 0 ELSE cs[id].duration_sec
         IN d + SumDurations(cs, ids \ {id})

TotalDuration(cs) == SumDurations(cs, ChunksOf(cs))

\* ------------------------------------------------- conversation derivations
\* mutant: the failed test placed before the pending / processing test
DeriveStatusFailedFirst(cur, statuses) ==
    IF statuses = {"completed"} THEN "completed"
    ELSE IF "failed" \in statuses THEN "failed"
    ELSE IF statuses \cap Active # {} THEN "processing"
    ELSE cur

\* the if / elif chain of _refresh_conversation_status on a non-empty list
\* of chunk statuses; cur is the status the conversation has
DeriveStatus(cur, statuses) ==
    IF statuses = {"completed"} THEN "completed"
    ELSE IF statuses \cap Active # {} THEN "processing"
    ELSE IF "failed" \in statuses THEN "failed"
    ELSE cur

\* mutant: the pass adds the chunks' durations to the stored total
RefreshAccumulatesDuration(cv, cs) ==
    IF cv.exists # "yes" THEN cv
    ELSE LET timed == [cv EXCEPT !.total_duration_sec = @ + TotalDuration(cs)]
             status == DeriveStatus(cv.status, StatusesOf(cs))
         IN IF cv.status = "recording" \/ StatusesOf(cs) = {} THEN timed
            ELSE [timed EXCEPT !.status = status,
                               !.completed_at = @ \/ status = "completed"]

\* mutant: the early return for a recording conversation left out
RefreshWithoutRecordingGuard(cv, cs) ==
    IF cv.exists # "yes" THEN cv
    ELSE LET timed == [cv EXCEPT !.total_duration_sec = TotalDuration(cs)]
             status == DeriveStatus(cv.status, StatusesOf(cs))
         IN IF StatusesOf(cs) = {} THEN timed
            ELSE [timed EXCEPT !.status = status,
                               !.completed_at = @ \/ status = "completed"]

\* _refresh_conversation_status(db, conversation_id), in one step
RefreshConversationStatus(cv, cs) ==
    IF cv.exists # "yes" THEN cv
    ELSE LET timed == [cv EXCEPT !.total_duration_sec = TotalDuration(cs)]
             status == DeriveStatus(cv.status, StatusesOf(cs))
         IN IF cv.status = "recording" \/ StatusesOf(cs) = {} THEN timed
            ELSE [timed EXCEPT !.status = status,
                               !.completed_at = @ \/ status = "completed"]

\* ConversationService.refresh_status (no caller in the application): the
\* same pass, with completed_at set only when it is not set yet
RefreshStatus(cv, cs) ==
    IF cv.exists # "yes" THEN cv
    ELSE LET timed == [cv EXCEPT !.total_duration_sec = TotalDuration(cs)]
             statuses == StatusesOf(cs)
         IN IF cv.status = "recording" \/ statuses = {} THEN timed
            ELSE IF \A st \in statuses : st = "completed"
            THEN [timed EXCEPT !.status = "completed", !.completed_at = TRUE]
            ELSE IF \E st \in statuses : st \in Active
            THEN [timed EXCEPT !.status = "processing"]
            ELSE IF "failed" \in statuses
            THEN [timed EXCEPT !.status = "failed"]
            ELSE timed

\* the chain of complete_conversation: failed is tested before pending /
\* processing, and an empty chunk list counts as all completed
CompleteDeriveStatus(statuses) ==
    IF statuses \subseteq {"completed"} THEN "completed"
    ELSE IF "failed" \in statuses THEN "failed"
    ELSE IF statuses \cap Active # {} THEN "processing"
    ELSE "completed"

\* the chain of the refresh-status endpoint
EndpointDeriveStatus(cur, statuses) ==
    IF statuses = {} THEN cur
    ELSE IF statuses = {"completed"} THEN "completed"
    ELSE IF "failed" \in statuses /\ statuses \cap Active = {} THEN "failed"
    ELSE IF statuses \cap Active # {} THEN "processing"
    ELSE cur

\* ------------------------------------------------------------ chunk writes
\* process_transcription, the record update after the pipeline returned
WriteResult(ch, r) ==
    [ch EXCEPT !.transcript_text = r.text,
               !.detected_language = r.language,
               !.duration_sec = r.duration,
               !.is_hallucination = FALSE,
               !.status = "completed",
               !.completed_at = TRUE,
               !.transcript_segments =
                   IF r.transcript_segments = "absent" THEN @
                   ELSE r.transcript_segments]

\* mutant: the except branch stores the error and leaves the status alone
WriteFailureKeepsStatus(ch, r) ==
    [ch EXCEPT !.error_message = r.error]

\* process_transcription, the except branch
WriteFailure(ch, r) ==
    [ch EXCEPT !.status = "failed", !.error_message = r.error]

WriteOutcome(ch, r) == IF r.raised THEN WriteFailure(ch, r) ELSE WriteResult(ch, r)

\* mutant: the status test of retry_transcription refuses pending only
RetryAllowedUnlessPending(status) == status # "pending"

\* mutant: the status test of retry_transcription left out
RetryAlwaysAllowed(status) == TRUE

\* retry_transcription accepts these statuses
RetryAllowed(status) == status \in {"failed", "completed"}

\* mutant: the reset keeps the transcript text
ResetKeepsText(ch) ==
    [ch EXCEPT !.status = "pending", !.error_message = NullText,
               !.completed_at = FALSE]

\* mutant: the reset keeps the error message and the completion timestamp
ResetKeepsError(ch) ==
    [ch EXCEPT !.status = "pending", !.transcript_text = NullText]

\* retry_transcription, the reset of the record
ResetForRetry(ch) ==
    [ch EXCEPT !.status = "pending", !.error_message = NullText,
               !.transcript_text = NullText, !.completed_at = FALSE]

\* the function cs without the rows ids
Without(cs, ids) == [id \in DOMAIN cs \ ids |-> cs[id]]

\* ------------------------------------------------------------------- Init
\* call holds a library function applied on its own; no such call in the
\* specifications of the job state machine
NoCall == [fn |-> "none"]

JobInit ==
    /\ conv = NoConv
    /\ chunks = << >>
    /\ nextId = 1
    /\ tasks = {}
    /\ enable_diarization \in BOOLEAN
    /\ lastOp = Op("init", 0)

Init == JobInit /\ call = NoCall

\* ---------------------------------------------------------------- handlers
\* POST /api/conversations; the language is stored as sent
CreateConversation(language) ==
    /\ conv.exists = "no"
    /\ \E ns \in SpeakerCounts :
         conv' = [NoConv EXCEPT !.exists = "yes", !.num_speakers = ns,
                                !.language = language]
    /\ lastOp' = Op("create_conversation", 0)
    /\ UNCHANGED <<chunks, nextId, tasks, enable_diarization, call>>

\* POST /api/upload: a standalone chunk; a language outside valid_languages
\* is answered with 400 before anything is stored
UploadAudio(language) ==
    /\ language \in ValidLanguages
    /\ nextId <= MaxChunks
    /\ \E ns \in SpeakerCounts :
         tasks' = tasks \cup {NewTask(nextId, ns)}
    /\ chunks' = (nextId :> NewChunk(NoConversation, language)) @@ chunks
    /\ nextId' = nextId + 1
    /\ lastOp' = Op("upload", nextId)
    /\ UNCHANGED <<conv, enable_diarization, call>>

\* the record add_chunk inserts: chunk_index is the form value
ConversationChunk(chunk_index, language) ==
    [NewChunk(TheConversation, language) EXCEPT !.chunk_index = chunk_index]

\* POST /api/conversations/{id}/chunks answered without another request in
\* between, by a recorder that numbers its chunks in the order it sends them
AddChunk ==
    /\ conv.exists = "yes"
    /\ nextId <= MaxChunks
    /\ chunks' = (nextId :> ConversationChunk(nextId - 1, conv.language))
                     @@ chunks
    /\ tasks' = tasks \cup {NewTask(nextId, conv.num_speakers)}
    /\ nextId' = nextId + 1
    /\ lastOp' = Op("add_chunk", nextId)
    /\ UNCHANGED <<conv, enable_diarization, call>>

\* POST /api/conversations/{id}/complete
CompleteConversation ==
    /\ conv.exists = "yes"
    /\ LET status == CompleteDeriveStatus(StatusesOf(chunks))
       IN conv' = [conv EXCEPT !.status = status,
                               !.completed_at = @ \/ status = "completed",
                               !.total_duration_sec = TotalDuration(chunks)]
    /\ lastOp' = Op("complete_conversation", 0)
    /\ UNCHANGED <<chunks, nextId, tasks, enable_diarization, call>>

\* POST /api/conversations/{id}/refresh-status
RefreshEndpoint ==
    /\ conv.exists = "yes"
    /\ conv' =
         IF conv.status = "recording" THEN conv
         ELSE LET status == EndpointDeriveStatus(conv.status, StatusesOf(chunks))
              IN [conv EXCEPT !.status = status,
                              !.completed_at =
                                  @ \/ StatusesOf(chunks) = {"completed"},
                              !.total_duration_sec = TotalDuration(chunks)]
    /\ lastOp' = Op("refresh_status", 0)
    /\ UNCHANGED <<chunks, nextId, tasks, enable_diarization, call>>

\* DELETE /api/conversations/{id}: the chunks, then the conversation
DeleteConversation ==
    /\ conv.exists = "yes"
    /\ chunks' = Without(chunks, ChunksOf(chunks))
    /\ conv' = DeletedConv
    /\ lastOp' = Op("delete_conversation", 0)
    /\ UNCHANGED <<nextId, tasks, enable_diarization, call>>

\* DELETE /api/transcriptions/{id}: the conversation is not refreshed
DeleteTranscription(id) ==
    /\ id \in DOMAIN chunks
    /\ chunks' = Without(chunks, {id})
    /\ lastOp' = Op("delete_transcription", id)
    /\ UNCHANGED <<conv, nextId, tasks, enable_diarization, call>>

\* POST /api/transcriptions/{id}/retry, accepted
RetryTranscription(id) ==
    /\ id \in DOMAIN chunks
    /\ RetryAllowed(chunks[id].status)
    /\ chunks' = [chunks EXCEPT ![id] = ResetForRetry(@)]
    /\ conv' = IF chunks[id].conversation_id # NoConversation
               THEN RefreshConversationStatus(conv, chunks') ELSE conv
    /\ tasks' = tasks \cup {NewTask(id, 0)}
    /\ lastOp' = Op("retry", id)
    /\ UNCHANGED <<nextId, enable_diarization, call>>

\* POST /api/transcriptions/{id}/retry, answered with 404 (no such record)
\* or 400 (status neither failed nor completed): nothing is written
RetryRejected(id) ==
    /\ IF id \in DOMAIN chunks THEN ~RetryAllowed(chunks[id].status) ELSE TRUE
    /\ lastOp' = Op("retry_rejected", id)
    /\ UNCHANGED <<conv, chunks, nextId, tasks, enable_diarization, call>>

\* -------------------------------------------------------- background task
\* effective_num_speakers of process_transcription
EffectiveNumSpeakers(t, ch, cv) ==
    IF /\ t.num_speakers = 0
       /\ ch.conversation_id # NoConversation
       /\ enable_diarization
       /\ cv.exists = "yes"
    THEN cv.num_speakers
    ELSE t.num_speakers

\* the pipeline results the task's call can end with
PipelineResults(t) ==
    IF t.eff # 0 /\ enable_diarization
    THEN DiarizedResults[t.language] ELSE PlainResults[t.language]

\* process_transcription up to the commit of status "processing"; a task
\* whose record is gone returns at once
StartTask(t) ==
    /\ t \in tasks
    /\ t.pc = "queued"
    /\ IF t.chunk \in DOMAIN chunks
       THEN /\ chunks' = [chunks EXCEPT ![t.chunk].status = "processing"]
            /\ tasks' = (tasks \ {t}) \cup
                 {[t EXCEPT !.pc = "running",
                            !.language = chunks[t.chunk].language,
                            !.eff = EffectiveNumSpeakers(t, chunks[t.chunk], conv)]}
            /\ lastOp' = Op("start", t.chunk)
       ELSE /\ chunks' = chunks
            /\ tasks' = tasks \ {t}
            /\ lastOp' = Op("task_gone", t.chunk)
    /\ UNCHANGED <<conv, nextId, enable_diarization, call>>

\* the same choice without the trace of the engine calls
PipelineOutcomes(t) ==
    IF t.eff # 0 /\ enable_diarization
    THEN DiarizedOutcomes[t.language] ELSE PlainOutcomes[t.language]

\* the rest of process_transcription with r the result of the pipeline call:
\* the commit of the outcome and the refresh of the owning conversation.
\* When the record was deleted meanwhile the commit fails and the except
\* branch finds no record.
Finish(t, r) ==
    /\ t \in tasks
    /\ t.pc = "running"
    /\ tasks' = tasks \ {t}
    /\ IF t.chunk \in DOMAIN chunks
       THEN /\ chunks' = [chunks EXCEPT ![t.chunk] = WriteOutcome(@, r)]
            /\ conv' = IF chunks[t.chunk].conversation_id # NoConversation
                       THEN RefreshConversationStatus(conv, chunks') ELSE conv
            /\ lastOp' = [op |-> IF r.raised THEN "failed" ELSE "completed",
                          chunk |-> t.chunk, events |-> r.events,
                          source_language |-> r.source_language]
       ELSE /\ UNCHANGED <<chunks, conv>>
            /\ lastOp' = Op("task_gone", t.chunk)
    /\ UNCHANGED <<nextId, enable_diarization, call>>

\* the pipeline call and the rest of process_transcription
FinishTask(t) == \E r \in PipelineOutcomes(t) : Finish(t, r)

\* FinishTask with the engine calls of the attempt kept in lastOp
FinishTaskTraced(t) == \E r \in PipelineResults(t) : Finish(t, r)

Next ==
    \/ CreateConversation(DefaultLanguage)
    \/ AddChunk
    \/ CompleteConversation
    \/ RefreshEndpoint
    \/ DeleteConversation
    \/ \E id \in ChunkIds : DeleteTranscription(id)
    \/ \E id \in ChunkIds : RetryTranscription(id)
    \/ \E t \in tasks : StartTask(t)
    \/ \E t \in tasks : FinishTask(t)

Spec == Init /\ [][Next]_vars

\* ------------------------------------------- the refresh as two sessions see it
\* what the commit of a session writes: the columns whose value the
\* derivation changed from the one the session loaded; the other columns
\* keep what the row holds now
CommitConversation(cur, loaded, target) ==
    IF cur.exists # "yes" THEN cur
    ELSE [cur EXCEPT
            !.status = IF target.status # loaded.status THEN target.status ELSE @,
            !.total_duration_sec =
                IF target.total_duration_sec # loaded.total_duration_sec
                THEN target.total_duration_sec ELSE @,
            !.completed_at =
                IF target.completed_at # loaded.completed_at
                THEN target.completed_at ELSE @]

\* process_transcription from the pipeline call to the commit of the outcome
CommitTask(t) ==
    /\ t \in tasks
    /\ t.pc = "running"
    /\ \E r \in PipelineResults(t) :
         IF t.chunk \in DOMAIN chunks
         THEN /\ chunks' = [chunks EXCEPT ![t.chunk] = WriteOutcome(@, r)]
              /\ tasks' = (tasks \ {t}) \cup
                   (IF chunks[t.chunk].conversation_id # NoConversation
                    THEN {[t EXCEPT !.pc = "refresh_read"]} ELSE {})
              /\ lastOp' = Op("commit", t.chunk)
         ELSE /\ chunks' = chunks
              /\ tasks' = tasks \ {t}
              /\ lastOp' = Op("task_gone", t.chunk)
    /\ UNCHANGED <<conv, nextId, enable_diarization, call>>

\* _refresh_conversation_status up to its commit: the session loads the
\* conversation and its chunks and derives the new column values
RefreshRead(t) ==
    /\ t \in tasks
    /\ t.pc = "refresh_read"
    /\ tasks' = (tasks \ {t}) \cup
         (IF conv.exists = "yes"
          THEN {[t EXCEPT !.pc = "refresh_write", !.loaded = conv,
                          !.target = RefreshConversationStatus(conv, chunks)]}
          ELSE {})
    /\ lastOp' = Op("refresh_read", t.chunk)
    /\ UNCHANGED <<conv, chunks, nextId, enable_diarization, call>>

\* the db.commit() that ends _refresh_conversation_status
RefreshWrite(t) ==
    /\ t \in tasks
    /\ t.pc = "refresh_write"
    /\ conv' = CommitConversation(conv, t.loaded, t.target)
    /\ tasks' = tasks \ {t}
    /\ lastOp' = Op("task_done", t.chunk)
    /\ UNCHANGED <<chunks, nextId, enable_diarization, call>>

RaceNext ==
    \/ CreateConversation(DefaultLanguage)
    \/ AddChunk
    \/ CompleteConversation
    \/ \E t \in tasks : StartTask(t)
    \/ \E t \in tasks : CommitTask(t)
    \/ \E t \in tasks : RefreshRead(t)
    \/ \E t \in tasks : RefreshWrite(t)

RaceSpec == Init /\ [][RaceNext]_vars

\* a task and its steps run to their end: each chunk's task is its own thread
FairSpec ==
    /\ Spec
    /\ \A id \in ChunkIds :
         /\ WF_vars(\E t \in tasks : t.chunk = id /\ StartTask(t))
         /\ WF_vars(\E t \in tasks : t.chunk = id /\ FinishTask(t))

\* standalone chunks only
UploadNext ==
    \/ UploadAudio(DefaultLanguage)
    \/ \E id \in ChunkIds : DeleteTranscription(id)
    \/ \E id \in ChunkIds : RetryTranscription(id)
    \/ \E t \in tasks : StartTask(t)
    \/ \E t \in tasks : FinishTask(t)

UploadSpec == Init /\ [][UploadNext]_vars

\* the retry endpoint with both of its answers, on chunks of a conversation
RetryNext ==
    \/ CreateConversation(DefaultLanguage)
    \/ AddChunk
    \/ CompleteConversation
    \/ \E id \in ChunkIds : RetryTranscription(id)
    \/ \E id \in ChunkIds : RetryRejected(id)
    \/ \E t \in tasks : StartTask(t)
    \/ \E t \in tasks : FinishTask(t)

RetrySpec == Init /\ [][RetryNext]_vars

\* chunks of every requested language, standalone and of a conversation,
\* with the engine calls of each attempt kept in lastOp
TraceNext ==
    \/ \E language \in RequestLanguages : CreateConversation(language)
    \/ \E language \in RequestLanguages : UploadAudio(language)
    \/ AddChunk
    \/ \E t \in tasks : StartTask(t)
    \/ \E t \in tasks : FinishTaskTraced(t)

TraceSpec == Init /\ [][TraceNext]_vars

\* ------------------------------------------- the pipeline called on its own
PipelineFunctions == {"transcribe", "transcribe_with_diarization"}

\* what the ASR engine returned in the try block of
\* transcribe_with_diarization, the text after the hallucination filter
NoAsrResult == [ran |-> FALSE, text |-> NullText, segments |-> << >>]

AsrResult(inv) ==
    IF inv.probe < MinDuration \/ inv.asr = "raise" THEN NoAsrResult
    ELSE [ran |-> TRUE, text |-> FilteredText(inv.text),
          segments |-> inv.segments]

\* a call of one of the two pipeline entry points: the arguments (webm: the
\* audio path ends in .webm), what os.unlink does during the call, the
\* position in the call, the duration the first probe reported, the
\* temporary files created so far and those on disk, temp_files of the
\* invocation called, the paths given to the ASR and to the diarization
\* engine by it and the temporary files on disk while they ran, the paths
\* the cleanup loops of the call have unlinked, the ASR output of the try
\* block, the value at the return statement and the result
PipelineCall(fn, language, webm, trim_silence) ==
    [fn |-> fn, language |-> language, webm |-> webm,
     trim_silence |-> trim_silence, unlink |-> "ok",
     pc |-> "called", probe |-> NoDuration,
     made |-> {}, existing |-> {}, temp_files |-> {},
     asr_path |-> NullText, diar_path |-> NullText, engine_files |-> {},
     unlinked |-> {}, whisper_result |-> NoAsrResult,
     returned |-> Raised(NullText, NoEvents),
     result |-> Raised(NullText, NoEvents)]

PipelineInit ==
    /\ JobInit
    /\ call \in {PipelineCall(fn, language, webm, trim_silence) :
                    fn \in PipelineFunctions, language \in RequestLanguages,
                    webm \in BOOLEAN, trim_silence \in BOOLEAN}

\* TranscriberService.transcribe from call to return or raise
ApplyTranscribe ==
    /\ call.fn = "transcribe"
    /\ call.pc = "called"
    /\ \E inv \in Invocations, io \in Conditionings :
         LET short == inv.probe < MinDuration
             c == Conditioned(call.webm, call.trim_silence, short, io)
             files == TranscribeFiles(call.webm, call.trim_silence, short,
                                      io, call.unlink)
             returned == Transcribe(call.language, inv)
         IN call' = [call EXCEPT
                       !.pc = "done", !.probe = inv.probe,
                       !.made = files.made, !.existing = files.left,
                       !.temp_files = c.kept,
                       !.asr_path =
                           IF short THEN NullText
                           ELSE TranscribePath(call.webm, call.trim_silence,
                                               io),
                       !.engine_files =
                           IF short THEN {} ELSE Tagged(call.fn, c.kept),
                       !.unlinked = Deleted(c.kept, call.unlink),
                       !.returned = returned,
                       !.result = AfterCleanup(returned, c.kept, call.unlink)]
    /\ UNCHANGED jobVars

\* transcribe_with_diarization up to the end of its try block: when the
\* block returns the finally clause runs; when an engine raised, control is
\* in an except branch and the files of temp_files are still on disk
TryDiarization ==
    /\ call.fn = "transcribe_with_diarization"
    /\ call.pc = "called"
    /\ \E inv \in Invocations, diar \in DiarOutcomes, io \in Conditionings :
         LET short == inv.probe < MinDuration
             c == Conditioned(call.webm, call.trim_silence, short, io)
             tried == DiarizationTry(call.language, inv, diar)
             transcribe_path ==
                 TranscribePath(call.webm, call.trim_silence, io)
         IN call' = [call EXCEPT
                       !.pc = IF tried.raised THEN "except" ELSE "done",
                       !.probe = inv.probe,
                       !.made = Tagged(call.fn, c.made),
                       !.existing = Tagged(call.fn,
                                      IF tried.raised THEN c.kept
                                      ELSE c.kept \ Deleted(c.kept,
                                                            call.unlink)),
                       !.temp_files = c.kept,
                       !.asr_path =
                           IF short THEN NullText ELSE transcribe_path,
                       !.diar_path =
                           IF tried.events.diar_called
                           THEN DiarizedPath(transcribe_path) ELSE NullText,
                       !.engine_files =
                           IF short THEN {} ELSE Tagged(call.fn, c.kept),
                       !.unlinked = IF tried.raised THEN {}
                                    ELSE Deleted(c.kept, call.unlink),
                       !.whisper_result = AsrResult(inv),
                       !.returned = tried,
                       !.result = tried]
    /\ UNCHANGED jobVars

\* the except branch of transcribe_with_diarization: the plain path on the
\* original file, then the finally clause, whose unlink is guarded; the
\* paths and files recorded are those of the try block
FallBack ==
    /\ call.pc = "except"
    /\ \E inv \in Invocations, io \in Conditionings :
         LET short == inv.probe < MinDuration
             c == Conditioned(call.webm, call.trim_silence, short, io)
             files == TranscribeFiles(call.webm, call.trim_silence, short,
                                      io, call.unlink)
             returned == Transcribe(call.language, inv)
         IN call' = [call EXCEPT
                       !.pc = "done",
                       !.made = @ \cup files.made,
                       !.existing =
                           (@ \ Tagged(call.fn, Deleted(call.temp_files,
                                                        call.unlink)))
                               \cup files.left,
                       !.unlinked = Deleted(call.temp_files, call.unlink)
                                      \cup Deleted(c.kept, call.unlink),
                       !.returned = FallBackToTranscribe(
                                        returned, call.result.events),
                       !.result = FallBackToTranscribe(
                                      AfterCleanup(returned, c.kept,
                                                   call.unlink),
                                      call.result.events)]
    /\ UNCHANGED jobVars

PipelineNext ==
    \/ ApplyTranscribe
    \/ TryDiarization
    \/ FallBack

PipelineSpec == PipelineInit /\ [][PipelineNext]_vars

\* the same calls, also while os.unlink fails
UnlinkInit ==
    /\ JobInit
    /\ call \in {[PipelineCall(fn, language, webm, trim_silence)
                     EXCEPT !.unlink = unlink] :
                    fn \in PipelineFunctions, language \in RequestLanguages,
                    webm \in BOOLEAN, trim_silence \in BOOLEAN,
                    unlink \in UnlinkOutcomes}

UnlinkSpec == UnlinkInit /\ [][PipelineNext]_vars

\* ------------------------------------------------------ speaker assignment
Speakers == {"SPEAKER_00", "SPEAKER_01"}

\* diarization turns and lists of them
Turns ==
    {d \in [start : 0..MaxTime, end : 0..MaxTime, speaker : Speakers] :
        d.start < d.end}

TurnLists == UNION {[1..n -> Turns] : n \in 0..MaxTurns}

Min(a, b) == IF a <= b THEN a ELSE b
Max(a, b) == IF a >= b THEN a ELSE b

\* overlap = max(0.0, min(end, d["end"]) - max(start, d["start"]))
Overlap(start, end, d) == Max(0, Min(end, d.end) - Max(start, d.start))

\* mutant: a later turn with the same overlap replaces the best one
ReplacesBestOnTie(overlap, best_overlap) == overlap >= best_overlap

\* if overlap > best_overlap
ReplacesBest(overlap, best_overlap) == overlap > best_overlap

RECURSIVE SpeakerLoop(_, _, _, _, _, _)
\* the loop of _find_speaker_for_segment from turn i on
SpeakerLoop(start, end, diarization_segments, i, best_speaker, best_overlap) ==
    IF i > Len(diarization_segments) THEN best_speaker
    ELSE LET d == diarization_segments[i]
             overlap == Overlap(start, end, d)
         IN IF ReplacesBest(overlap, best_overlap)
            THEN SpeakerLoop(start, end, diarization_segments, i + 1,
                             d.speaker, overlap)
            ELSE SpeakerLoop(start, end, diarization_segments, i + 1,
                             best_speaker, best_overlap)

\* DiarizerService._find_speaker_for_segment
FindSpeakerForSegment(start, end, diarization_segments) ==
    SpeakerLoop(start, end, diarization_segments, 1, "UNKNOWN", 0)

SpeakerInit ==
    /\ JobInit
    /\ enable_diarization
    /\ call \in [fn : {"_find_speaker_for_segment"},
                 start : 0..MaxTime, end : 0..MaxTime,
                 diarization_segments : TurnLists,
                 pc : {"called"}, speaker : {NullText}]
    /\ call.start <= call.end

ApplyFindSpeaker ==
    /\ call.fn = "_find_speaker_for_segment"
    /\ call.pc = "called"
    /\ call' = [call EXCEPT
                  !.pc = "done",
                  !.speaker = FindSpeakerForSegment(call.start, call.end,
                                                    call.diarization_segments)]
    /\ UNCHANGED jobVars

SpeakerNext == ApplyFindSpeaker

SpeakerSpec == SpeakerInit /\ [][SpeakerNext]_vars

\* -------------------------------------------------- speaker consolidation
MaxSegments == 3

SegmentTimes == 0..2
SegmentTexts == {"hi", "ok"}

\* raw_segments of merge_with_transcript: one labelled segment per
\* non-empty ASR segment
RawSegments ==
    {s \in [start : SegmentTimes, end : SegmentTimes,
            speaker : Speakers, text : SegmentTexts] : s.start < s.end}

RawSegmentLists == UNION {[1..n -> RawSegments] : n \in 0..MaxSegments}

RECURSIVE JoinTexts(_)
\* " ".join(current_texts)
JoinTexts(texts) ==
    IF texts = << >> THEN ""
    ELSE IF Len(texts) = 1 THEN texts[1]
    ELSE texts[1] \o " " \o JoinTexts(Tail(texts))

\* mutant: a continued turn keeps the end of its first segment
TurnEndKept(current_end, end) == current_end

\* current_end = end
TurnEnd(current_end, end) == end

NoTurn == [speaker |-> NullText, texts |-> << >>, start |-> 0, end |-> 0]

\* if current_speaker is not None and current_texts: consolidated.append(..)
SaveTurn(consolidated, cur) ==
    IF cur.speaker # NullText /\ cur.texts # << >>
    THEN Append(consolidated,
                [start |-> cur.start, end |-> cur.end,
                 speaker |-> cur.speaker, text |-> JoinTexts(cur.texts)])
    ELSE consolidated

\* mutant: every segment starts a turn of its own
StartsTurnAlways(speaker, current_speaker) == TRUE

\* if speaker != current_speaker
StartsTurn(speaker, current_speaker) == speaker # current_speaker

RECURSIVE ConsolidateLoop(_, _, _, _)
\* the loop of _consolidate_speaker_segments from segment i on
ConsolidateLoop(segments, i, cur, consolidated) ==
    IF i > Len(segments) THEN SaveTurn(consolidated, cur)
    ELSE LET seg == segments[i]
         IN IF StartsTurn(seg.speaker, cur.speaker)
            THEN ConsolidateLoop(segments, i + 1,
                                 [speaker |-> seg.speaker,
                                  texts |-> <<seg.text>>,
                                  start |-> seg.start, end |-> seg.end],
                                 SaveTurn(consolidated, cur))
            ELSE ConsolidateLoop(segments, i + 1,
                                 [cur EXCEPT
                                    !.texts = Append(@, seg.text),
                                    !.end = TurnEnd(@, seg.end)],
                                 consolidated)

\* DiarizerService._consolidate_speaker_segments
ConsolidateSpeakerSegments(segments) ==
    IF segments = << >> THEN << >>
    ELSE ConsolidateLoop(segments, 1, NoTurn, << >>)

ConsolidateInit ==
    /\ JobInit
    /\ enable_diarization
    /\ call \in [fn : {"_consolidate_speaker_segments"},
                 segments : RawSegmentLists,
                 pc : {"called"}, consolidated : {<< >>}]

ApplyConsolidate ==
    /\ call.fn = "_consolidate_speaker_segments"
    /\ call.pc = "called"
    /\ call' = [call EXCEPT
                  !.pc = "done",
                  !.consolidated = ConsolidateSpeakerSegments(call.segments)]
    /\ UNCHANGED jobVars

ConsolidateNext == ApplyConsolidate

ConsolidateSpec == ConsolidateInit /\ [][ConsolidateNext]_vars

\* ------------------------------------------------- hallucination filter
MaxWords == 8

\* a text is the sequence of its characters
UpperLetters ==
    <<"A", "B", "C", "D", "E", "F", "G", "H", "I", "J", "K", "L", "M", "N",
     "O", "P", "Q", "R", "S", "T", "U", "V", "W", "X", "Y", "Z">>
LowerLetters ==
    <<"a", "b", "c", "d", "e", "f", "g", "h", "i", "j", "k", "l", "m", "n",
     "o", "p", "q", "r", "s", "t", "u", "v", "w", "x", "y", "z">>
Digits == {"0", "1", "2", "3", "4", "5", "6", "7", "8", "9"}
Whitespace == {" "}
Punctuation == {".", ",", "!", "-"}

Range(seq) == {seq[i] : i \in 1..Len(seq)}

Characters ==
    Range(UpperLetters) \cup Range(LowerLetters) \cup Digits
        \cup Whitespace \cup Punctuation

\* str.lower and str.upper, character by character
LowerOf ==
    [c \in Characters |->
        IF c \in Range(UpperLetters)
        THEN LowerLetters[CHOOSE i \in 1..Len(UpperLetters) :
                              UpperLetters[i] = c]
        ELSE c]

UpperOf ==
    [c \in Characters |->
        IF c \in Range(LowerLetters)
        THEN UpperLetters[CHOOSE i \in 1..Len(LowerLetters) :
                              LowerLetters[i] = c]
        ELSE c]

ToLower(text) == [i \in 1..Len(text) |-> LowerOf[text[i]]]
ToUpper(text) == [i \in 1..Len(text) |-> UpperOf[text[i]]]

\* str.isalnum for one character
IsAlnum(c) == c \in Range(UpperLetters) \cup Range(LowerLetters) \cup Digits

RECURSIVE Strip(_)
\* str.strip
Strip(text) ==
    IF text = << >> THEN text
    ELSE IF Head(text) \in Whitespace THEN Strip(Tail(text))
    ELSE IF text[Len(text)] \in Whitespace
         THEN Strip(SubSeq(text, 1, Len(text) - 1))
    ELSE text

RECURSIVE SplitLoop(_, _, _, _)
\* str.split() from character i on: word is the word being read
SplitLoop(text, i, word, words) ==
    IF i > Len(text)
    THEN IF word = << >> THEN words ELSE Append(words, word)
    ELSE IF text[i] \in Whitespace
         THEN SplitLoop(text, i + 1, << >>,
                        IF word = << >> THEN words ELSE Append(words, word))
         ELSE SplitLoop(text, i + 1, Append(word, text[i]), words)

Split(text) == SplitLoop(text, 1, << >>, << >>)

RECURSIVE JoinWords(_)
\* ' '.join(words) on character sequences
JoinWords(words) ==
    IF words = << >> THEN << >>
    ELSE IF Len(words) = 1 THEN words[1]
    ELSE words[1] \o <<" ">> \o JoinWords(Tail(words))

RECURSIVE CountFrom(_, _, _)
\* str.count: occurrences of pattern that do not overlap, from position i
CountFrom(text, pattern, i) ==
    IF i + Len(pattern) - 1 > Len(text) THEN 0
    ELSE IF SubSeq(text, i, i + Len(pattern) - 1) = pattern
         THEN 1 + CountFrom(text, pattern, i + Len(pattern))
         ELSE CountFrom(text, pattern, i + 1)

Count(text, pattern) == CountFrom(text, pattern, 1)

\* the characters of the strings the model uses
Spelling ==
    "thank you" :> <<"t", "h", "a", "n", "k", " ", "y", "o", "u">> @@
    "thanks for watching" :> <<"t", "h", "a", "n", "k", "s", " ", "f", "o",
        "r", " ", "w", "a", "t", "c", "h", "i", "n", "g">> @@
    "subscribe" :> <<"s", "u", "b", "s", "c", "r", "i", "b", "e">> @@
    "like and subscribe" :> <<"l", "i", "k", "e", " ", "a", "n", "d", " ",
        "s", "u", "b", "s", "c", "r", "i", "b", "e">> @@
    "see you next time" :> <<"s", "e", "e", " ", "y", "o", "u", " ", "n",
        "e", "x", "t", " ", "t", "i", "m", "e">> @@
    "bye" :> <<"b", "y", "e">> @@
    "goodbye" :> <<"g", "o", "o", "d", "b", "y", "e">> @@
    "We discussed the quarterly budget and timeline" :>
        <<"W", "e", " ", "d", "i", "s", "c", "u", "s", "s", "e", "d", " ",
        "t", "h", "e", " ", "q", "u", "a", "r", "t", "e", "r", "l", "y",
        " ", "b", "u", "d", "g", "e", "t", " ", "a", "n", "d", " ", "t",
        "i", "m", "e", "l", "i", "n", "e">> @@
    "a" :> <<"a">> @@
    "b" :> <<"b">> @@
    "xx" :> <<"x", "x">> @@
    "xxa" :> <<"x", "x", "a">> @@
    "DIY" :> <<"D", "I", "Y">> @@
    "diy!" :> <<"d", "i", "y", "!">> @@
    "-" :> <<"-">>

PhraseTexts == {Spelling[phrase] : phrase \in HallucinationPhrases}

\* if text_lower == phrase or text_lower == phrase + "."
IsPhrase(text_lower) ==
    \E phrase \in PhraseTexts :
        text_lower = phrase \/ text_lower = phrase \o <<".">>

\* clean_word = ''.join(c for c in word if c.isalnum())
CleanWord(word) == SelectSeq(word, IsAlnum)

\* word_counts[clean_word]
WordCount(words, clean_word) ==
    Cardinality({i \in 1..Len(words) : CleanWord(words[i]) = clean_word})

\* mutant: the threshold of the comment, more than 50% of the words
DominatesHalf(count, total) == count >= 4 /\ count * 2 > total

\* if count >= 4 and count / len(words) > 0.4
Dominates(count, total) == count >= 4 /\ count * 10 > 4 * total

IsRepeatedWord(words) ==
    /\ Len(words) >= 4
    /\ \E i \in 1..Len(words) :
          /\ CleanWord(words[i]) # << >>
          /\ Dominates(WordCount(words, CleanWord(words[i])), Len(words))

\* range(1, min(5, len(words) // 3 + 1))
PatternLengths(words) == 1..(Min(5, (Len(words) \div 3) + 1) - 1)

\* if count >= 3 and len(pattern) * count > len(text_lower) * 0.5
Covers(text_lower, pattern) ==
    LET count == Count(text_lower, pattern)
    IN count >= 3 /\ 2 * Len(pattern) * count > Len(text_lower)

IsRepeatedPhrase(text_lower, words) ==
    /\ Len(words) >= 6
    /\ \E pattern_len \in PatternLengths(words) :
          Covers(text_lower, JoinWords(SubSeq(words, 1, pattern_len)))

\* mutant: the comparison with the denylist keeps the case of the text
KeepCase(text) == Strip(text)

\* text_lower = text.lower().strip()
TextLower(text) == Strip(ToLower(text))

\* TranscriberService._is_likely_hallucination on a text of any form;
\* IsLikelyHallucination is its restriction to the texts of AsrTexts
IsLikelyHallucinationText(text) ==
    IF text = << >> THEN FALSE
    ELSE LET text_lower == TextLower(text)
             words == Split(text_lower)
         IN \/ IsPhrase(text_lower)
            \/ IsRepeatedWord(words)
            \/ IsRepeatedPhrase(text_lower, words)

\* the text made of the given words, one space between two words
Text(ws) == JoinWords([i \in 1..Len(ws) |-> Spelling[ws[i]]])

WordLists(vocabulary) ==
    UNION {[1..n -> vocabulary] : n \in 0..MaxWords}

\* the denylist phrases in lower, upper and capitalised form with and
\* without endings
PhraseVariants ==
    {prefix \o form \o ending :
        prefix \in {<< >>, <<" ">>},
        form \in UNION {{phrase, ToUpper(phrase),
                         <<UpperOf[Head(phrase)]>> \o Tail(phrase)} :
                            phrase \in PhraseTexts},
        ending \in {<< >>, <<".">>, <<"!">>, <<".", ".">>, <<".", " ">>}}

\* the texts of up to MaxWords words of a vocabulary
WordTexts(vocabulary) == {Text(ws) : ws \in WordLists(vocabulary)}

RepeatedWordVocabulary == {"DIY", "diy!", "-"}
RepeatedPhraseVocabulary == {"a", "b", "xx", "xxa"}

\* texts that repeat a word, the denylist phrases and an ordinary sentence
FilterInit ==
    /\ JobInit
    /\ enable_diarization
    /\ call \in [fn : {"_is_likely_hallucination"},
                 text : WordTexts(RepeatedWordVocabulary)
                          \cup PhraseVariants
                          \cup {Spelling["We discussed the quarterly budget and timeline"]},
                 pc : {"called"}, result : {FALSE}]

ApplyFilter ==
    /\ call.fn = "_is_likely_hallucination"
    /\ call.pc = "called"
    /\ call' = [call EXCEPT
                  !.pc = "done",
                  !.result = IsLikelyHallucinationText(call.text)]
    /\ UNCHANGED jobVars

FilterNext == ApplyFilter

FilterSpec == FilterInit /\ [][FilterNext]_vars

\* texts that repeat a phrase
RepeatInit ==
    /\ JobInit
    /\ enable_diarization
    /\ call \in [fn : {"_is_likely_hallucination"},
                 text : WordTexts(RepeatedPhraseVocabulary),
                 pc : {"called"}, result : {FALSE}]

RepeatSpec == RepeatInit /\ [][FilterNext]_vars

\* ---------------------------------------------------------------- loudness
\* levels and gains in dB
MaxQuiet == 80
TargetDb == 0 - 20
AcceptableGain == 10
MaxGain == 50

\* mean_volume as measured by get_audio_stats
MeanVolumes == (0 - MaxQuiet)..0

Abs(x) == IF x < 0 THEN 0 - x ELSE x

\* mutant: the test of the gain without its absolute value
SkipsLowGain(gain) == gain < AcceptableGain

\* if abs(gain) < 10: return None
Skips(gain) == Abs(gain) < AcceptableGain

\* if gain > max_gain: gain = max_gain
LimitGain(gain) == IF gain > MaxGain THEN MaxGain ELSE gain

\* normalize_audio from the measured volume to the gain given to ffmpeg
NormalizeGain(mean_volume, target_db) ==
    LET gain == target_db - mean_volume
    IN IF Skips(gain)
       THEN [skipped |-> TRUE, gain |-> 0]
       ELSE [skipped |-> FALSE, gain |-> LimitGain(gain)]

LoudnessInit ==
    /\ JobInit
    /\ enable_diarization
    /\ call \in [fn : {"normalize_audio"}, mean_volume : MeanVolumes,
                 pc : {"called"}, skipped : {FALSE}, gain : {0}]

ApplyNormalize ==
    /\ call.fn = "normalize_audio"
    /\ call.pc = "called"
    /\ LET n == NormalizeGain(call.mean_volume, TargetDb)
       IN call' = [call EXCEPT
                     !.pc = "done", !.skipped = n.skipped, !.gain = n.gain]
    /\ UNCHANGED jobVars

LoudnessNext == ApplyNormalize

LoudnessSpec == LoudnessInit /\ [][LoudnessNext]_vars

\* ------------------------------------------ add_chunk as other requests see it
\* the values of the form field chunk_index
ChunkIndexes == 0..(MaxChunks - 1)

\* an add_chunk request suspended at "await file.read()": it holds the form
\* value and the conversation as its session loaded it
AddChunkRequest(chunk_index, cv) ==
    [chunk |-> 0, pc |-> "add_chunk", chunk_index |-> chunk_index,
     loaded |-> cv]

Requests == {r \in tasks : r.pc = "add_chunk"}

\* add_chunk up to the read of the uploaded file: 404 without the conversation
AddChunkLookup(chunk_index) ==
    /\ conv.exists = "yes"
    /\ nextId + Cardinality(Requests) <= MaxChunks
    /\ AddChunkRequest(chunk_index, conv) \notin tasks
    /\ tasks' = tasks \cup {AddChunkRequest(chunk_index, conv)}
    /\ lastOp' = Op("add_chunk_lookup", 0)
    /\ UNCHANGED <<conv, chunks, nextId, enable_diarization, call>>

\* the rest of add_chunk: the insert and its commit, then the task queued
\* with conversation.num_speakers, which the commit has expired: without the
\* row the reload raises and the request ends with no task
AddChunkInsert(r) ==
    /\ r \in tasks
    /\ r.pc = "add_chunk"
    /\ chunks' = (nextId :> ConversationChunk(r.chunk_index, r.loaded.language))
                     @@ chunks
    /\ tasks' = (tasks \ {r}) \cup
                  IF conv.exists = "yes"
                  THEN {NewTask(nextId, conv.num_speakers)} ELSE {}
    /\ nextId' = nextId + 1
    /\ lastOp' = Op("add_chunk", nextId)
    /\ UNCHANGED <<conv, enable_diarization, call>>

ChunkNext ==
    \/ CreateConversation(DefaultLanguage)
    \/ \E chunk_index \in ChunkIndexes : AddChunkLookup(chunk_index)
    \/ \E r \in Requests : AddChunkInsert(r)
    \/ DeleteConversation
    \/ \E t \in tasks \ Requests : StartTask(t)
    \/ \E t \in tasks \ Requests : FinishTask(t)

ChunkSpec == Init /\ [][ChunkNext]_vars

\* ================================================= derivation passes, timed
\* The three implementations of the derivation pass as functions of the
\* conversation row, its chunks and the value of datetime.utcnow(); here
\* completed_at is a clock value, NoStamp being None.
MaxClock == 3
NoStamp == 0

\* _refresh_conversation_status(db, conversation_id) at time now
RefreshConversationStatusAt(cv, cs, now) ==
    IF cv.exists # "yes" THEN cv
    ELSE LET timed == [cv EXCEPT !.total_duration_sec = TotalDuration(cs)]
             statuses == StatusesOf(cs)
         IN IF cv.status = "recording" \/ statuses = {} THEN timed
            ELSE [timed EXCEPT !.status = DeriveStatus(cv.status, statuses),
                               !.completed_at =
                                   IF statuses = {"completed"} THEN now ELSE @]

\* ConversationService.refresh_status(conversation_id) at time now
RefreshStatusAt(cv, cs, now) ==
    IF cv.exists # "yes" THEN cv
    ELSE LET timed == [cv EXCEPT !.total_duration_sec = TotalDuration(cs)]
             statuses == StatusesOf(cs)
         IN IF cv.status = "recording" \/ statuses = {} THEN timed
            ELSE IF \A st \in statuses : st = "completed"
            THEN [timed EXCEPT !.status = "completed",
                               !.completed_at = IF @ = NoStamp THEN now ELSE @]
            ELSE IF \E st \in statuses : st \in Active
            THEN [timed EXCEPT !.status = "processing"]
            ELSE IF "failed" \in statuses
            THEN [timed EXCEPT !.status = "failed"]
            ELSE timed

\* POST /api/conversations/{id}/refresh-status at time now
RefreshEndpointAt(cv, cs, now) ==
    IF cv.exists # "yes" THEN cv
    ELSE IF cv.status = "recording" THEN cv
    ELSE LET statuses == StatusesOf(cs)
         IN [cv EXCEPT !.status = EndpointDeriveStatus(cv.status, statuses),
                       !.completed_at =
                           IF statuses = {"completed"} THEN now ELSE @,
                       !.total_duration_sec = TotalDuration(cs)]

ConversationStatuses == {"recording", "processing", "completed", "failed"}
ChunkStatuses == {"pending", "processing", "completed", "failed"}
ChunkDurations == {NoDuration, 2}
StoredTotals == {NoDuration, 0, 5}

\* the columns of a chunk the pass reads
DerivedChunks ==
    [conversation_id : {TheConversation}, status : ChunkStatuses,
     duration_sec : ChunkDurations]

\* a conversation row: completed is only written together with completed_at
\* and a recording conversation has not been completed
ConversationRows ==
    {[NoConv EXCEPT !.exists = "yes", !.status = st, !.completed_at = at,
                    !.total_duration_sec = total] :
        st \in ConversationStatuses, at \in {NoStamp, 1}, total \in StoredTotals}

\* a conversation with its chunks at time 2, no pass made yet
DeriveInit ==
    /\ JobInit /\ enable_diarization
    /\ \E cv \in ConversationRows, n \in 0..MaxChunks :
         \E cs \in [1..n -> DerivedChunks] :
            /\ cv.status = "completed" => cv.completed_at # NoStamp
            /\ cv.status = "recording" => cv.completed_at = NoStamp
            /\ call = [fn |-> "derive", conversation |-> cv, chunks |-> cs,
                       now |-> 2, pass |-> "none", before |-> cv]

\* the record after one pass: before is the row the pass read, the clock
\* moves on
Passed(name, after) ==
    [call EXCEPT !.before = call.conversation,
                 !.conversation = after,
                 !.now = @ + 1,
                 !.pass = name]

ApplyRefreshConversationStatus ==
    /\ call.fn = "derive"
    /\ call.now <= MaxClock
    /\ call' = Passed("_refresh_conversation_status",
                      RefreshConversationStatusAt(call.conversation,
                                                  call.chunks, call.now))
    /\ UNCHANGED jobVars

ApplyRefreshStatus ==
    /\ call.fn = "derive"
    /\ call.now <= MaxClock
    /\ call' = Passed("refresh_status",
                      RefreshStatusAt(call.conversation, call.chunks, call.now))
    /\ UNCHANGED jobVars

ApplyRefreshEndpoint ==
    /\ call.fn = "derive"
    /\ call.now <= MaxClock
    /\ call' = Passed("refresh_conversation_status",
                      RefreshEndpointAt(call.conversation, call.chunks, call.now))
    /\ UNCHANGED jobVars

DeriveNext ==
    \/ ApplyRefreshConversationStatus
    \/ ApplyRefreshStatus
    \/ ApplyRefreshEndpoint

DeriveSpec == DeriveInit /\ [][DeriveNext]_vars

\* --------------------------------------------------- merge_with_transcript
\* Times are in quarter milliseconds; the text of an ASR segment is a
\* sequence of characters.

\* round(x, 3): the nearest millisecond, an exact half to the even one
RoundMs(q) ==
    LET lo == (q \div 4) * 4
        r == q % 4
    IN IF r < 2 THEN lo
       ELSE IF r > 2 THEN lo + 4
       ELSE IF (q \div 4) % 2 = 0 THEN lo ELSE lo + 4

RECURSIVE AsString(_)
\* the str of a sequence of characters
AsString(chars) ==
    IF chars = << >> THEN "" ELSE Head(chars) \o AsString(Tail(chars))

RECURSIVE MergeLoop(_, _, _, _)
\* the loop of merge_with_transcript from ASR segment i on: a segment whose
\* stripped text is empty is skipped, the others are labelled
MergeLoop(whisper_segments, diarization_segments, i, raw_segments) ==
    IF i > Len(whisper_segments) THEN raw_segments
    ELSE LET seg == whisper_segments[i]
             text == Strip(seg.text)
             speaker == FindSpeakerForSegment(seg.start, seg.end,
                                              diarization_segments)
         IN MergeLoop(whisper_segments, diarization_segments, i + 1,
                      IF text = << >> THEN raw_segments
                      ELSE Append(raw_segments,
                                  [start |-> RoundMs(seg.start),
                                   end |-> RoundMs(seg.end),
                                   text |-> AsString(text),
                                   speaker |-> speaker]))

\* the labels in the order of str
SpeakerOrder == <<"SPEAKER_00", "SPEAKER_01", "UNKNOWN">>

\* sorted(set(s["speaker"] for s in raw_segments))
SortedSpeakers(raw_segments) ==
    LET used == {raw_segments[i].speaker : i \in DOMAIN raw_segments}
        F[i \in 0..Len(SpeakerOrder)] ==
            IF i = 0 THEN << >>
            ELSE IF SpeakerOrder[i] \in used
                 THEN Append(F[i - 1], SpeakerOrder[i]) ELSE F[i - 1]
    IN F[Len(SpeakerOrder)]

RECURSIVE FormatLines(_)
\* "\n".join(lines) with one line "[speaker]: text" per consolidated segment
FormatLines(consolidated_segments) ==
    IF consolidated_segments = << >> THEN ""
    ELSE LET seg == Head(consolidated_segments)
             line == "[" \o seg.speaker \o "]: " \o seg.text
         IN IF Len(consolidated_segments) = 1 THEN line
            ELSE line \o "\n" \o FormatLines(Tail(consolidated_segments))

\* DiarizerService._format_transcript_with_speakers
FormatTranscriptWithSpeakers(consolidated_segments) ==
    FormatLines(consolidated_segments)

\* DiarizerService.merge_with_transcript
MergeWithTranscript(whisper_segments, diarization_segments) ==
    LET raw_segments == MergeLoop(whisper_segments, diarization_segments,
                                  1, << >>)
        consolidated_segments == ConsolidateSpeakerSegments(raw_segments)
    IN [segments |-> consolidated_segments,
        raw_segments |-> raw_segments,
        speakers |-> SortedSpeakers(raw_segments),
        full_text |-> FormatTranscriptWithSpeakers(consolidated_segments)]

\* ASR segments: 0 ms to 1 ms and 1.25 ms to 2 ms, with a text that has
\* blanks around it or is blank
WhisperWindows == {<<0, 4>>, <<5, 8>>}
WhisperTexts == {<<" ", "h", "i">>, <<"o", "k", " ">>, <<" ">>}
WhisperSegments ==
    {[start |-> w[1], end |-> w[2], text |-> t] :
        w \in WhisperWindows, t \in WhisperTexts}

\* diarization turns over the whole recording and over its second half
MergeTurns ==
    {[start |-> w[1], end |-> w[2], speaker |-> sp] :
        w \in {<<0, 8>>, <<4, 8>>}, sp \in Speakers}

NoMerge == [segments |-> << >>, raw_segments |-> << >>,
            speakers |-> << >>, full_text |-> ""]

MergeInit ==
    /\ JobInit
    /\ enable_diarization
    /\ \E n \in 0..MaxSegments, m \in 0..MaxTurns :
         \E ws \in [1..n -> WhisperSegments], ds \in [1..m -> MergeTurns] :
            call = [fn |-> "merge_with_transcript",
                    whisper_segments |-> ws, diarization_segments |-> ds,
                    pc |-> "called", result |-> NoMerge]

ApplyMerge ==
    /\ call.fn = "merge_with_transcript"
    /\ call.pc = "called"
    /\ call' = [call EXCEPT
                  !.pc = "done",
                  !.result = MergeWithTranscript(call.whisper_segments,
                                                 call.diarization_segments)]
    /\ UNCHANGED jobVars

MergeNext == ApplyMerge

MergeSpec == MergeInit /\ [][MergeNext]_vars

\* =================================================================== claims
\* the derivation as the design states it: unchanged without chunks,
\* completed when all are, processing when any chunk is pending or
\* processing, failed otherwise
ExpectedStatus(cur, statuses) ==
    IF statuses = {} THEN cur
    ELSE IF \A st \in statuses : st = "completed" THEN "completed"
    ELSE IF \E st \in statuses : st \in {"pending", "processing"} THEN "processing"
    ELSE "failed"

\* the last operation was a derivation pass of _refresh_conversation_status
\* for a chunk of the conversation (after a completion, a failure or a retry)
BackgroundPassRan(op, cs) ==
    /\ op.op \in {"completed", "failed", "retry"}
    /\ op.chunk \in ChunksOf(cs)

\* C1: a chunk's status only moves pending -> processing -> completed or
\* failed, and leaves completed or failed only by a retry, to pending
C1_StatusTransitions ==
    [][\A id \in ChunkIds :
         (id \in DOMAIN chunks /\ id \in DOMAIN chunks'
            /\ chunks'[id].status # chunks[id].status)
         => \/ chunks[id].status = "pending" /\ chunks'[id].status = "processing"
            \/ chunks[id].status = "processing" /\ chunks'[id].status \in Terminal
            \/ /\ chunks[id].status \in Terminal
               /\ chunks'[id].status = "pending"
               /\ lastOp'.op = "retry" /\ lastOp'.chunk = id]_vars

\* a chunk that completed once is pending again, by the retry just applied
C1_Witness ==
    /\ lastOp.op = "retry"
    /\ lastOp.chunk \in DOMAIN chunks
    /\ chunks[lastOp.chunk].status = "pending"
    /\ chunks[lastOp.chunk].detected_language = "en"

\* C2: a derivation pass on a conversation that is not recording leaves the
\* status unchanged without chunks, and else sets completed when all chunks
\* are completed, processing when any is pending or processing, failed
\* otherwise
C2_DerivationResult ==
    [][(/\ conv.exists = "yes" /\ conv'.exists = "yes"
        /\ conv.status # "recording"
        /\ \/ BackgroundPassRan(lastOp', chunks')
           \/ lastOp'.op = "refresh_status")
       => conv'.status = ExpectedStatus(conv.status, StatusesOf(chunks'))]_vars

\* the pass after a completion finds a failed sibling and no active chunk
C2_Witness ==
    /\ lastOp.op = "completed"
    /\ lastOp.chunk \in ChunksOf(chunks)
    /\ conv.exists = "yes"
    /\ conv.status = "failed"
    /\ StatusesOf(chunks) = {"completed", "failed"}

\* C3: with a pending or processing chunk and a failed chunk, each operation
\* that derives the status (background refresh, refresh-status, complete)
\* sets processing, never failed
C3_ProcessingPrecedence ==
    (/\ conv.exists = "yes"
     /\ StatusesOf(chunks) \cap Active # {}
     /\ "failed" \in StatusesOf(chunks)
     /\ \/ lastOp.op = "complete_conversation"
        \/ /\ conv.status # "recording"
           /\ \/ BackgroundPassRan(lastOp, chunks)
              \/ lastOp.op = "refresh_status")
    => conv.status = "processing"

\* C4: while the conversation is recording, no chunk transition and no
\* derivation pass changes its status; only complete-conversation does (or
\* the conversation is deleted)
C4_RecordingFrozen ==
    [][(conv.exists = "yes" /\ conv.status = "recording")
       => \/ conv'.exists = "yes" /\ conv'.status = "recording"
          \/ lastOp'.op = "complete_conversation"
          \/ lastOp'.op = "delete_conversation" /\ conv'.exists = "deleted"]_vars

\* every chunk of the recording conversation completed, the last just now,
\* and the status is still recording
C4_Witness ==
    /\ lastOp.op = "completed"
    /\ lastOp.chunk \in ChunksOf(chunks)
    /\ conv.exists = "yes"
    /\ conv.status = "recording"
    /\ StatusesOf(chunks) = {"completed"}
    /\ Cardinality(ChunksOf(chunks)) = MaxChunks

\* C5: after an operation on the conversation or one of its chunks returned,
\* a conversation that is not recording and has chunks has the status the
\* derivation gives for its chunk statuses
C5_StatusIsDerived ==
    (/\ conv.exists = "yes"
     /\ conv.status # "recording"
     /\ StatusesOf(chunks) # {}
     /\ lastOp.op \in {"add_chunk", "start", "completed", "failed", "retry",
                       "delete_transcription", "complete_conversation"})
    => conv.status = ExpectedStatus(conv.status, StatusesOf(chunks))

\* C6: after a chunk completion, failure, retry or deletion returned, the
\* conversation's total duration is the sum of its chunks' durations (null
\* as 0)
C6_TotalIsSum ==
    (/\ conv.exists = "yes"
     /\ lastOp.op \in {"completed", "failed", "retry", "delete_transcription"})
    => (IF conv.total_duration_sec = NoDuration THEN 0
        ELSE conv.total_duration_sec) = TotalDuration(chunks)

\* C7: once every task of concurrently finishing sibling chunks has ended,
\* the status of the (non-recording) conversation is the derivation over
\* the final chunk statuses
C7_Converges ==
    (/\ tasks = {}
     /\ conv.exists = "yes"
     /\ conv.status # "recording"
     /\ StatusesOf(chunks) # {})
    => conv.status = ExpectedStatus(conv.status, StatusesOf(chunks))

\* C8: every chunk that is pending or processing eventually is completed or
\* failed (or has been deleted); no task ends leaving it in processing
C8_EveryTaskEnds ==
    \A id \in ChunkIds :
        (id \in DOMAIN chunks /\ chunks[id].status \in Active)
        ~> (id \notin DOMAIN chunks \/ chunks[id].status \in Terminal)

\* every chunk was started, the last task just ended in failed, none is left
C8_Witness ==
    /\ lastOp.op = "failed"
    /\ tasks = {}
    /\ DOMAIN chunks = ChunkIds
    /\ \A id \in DOMAIN chunks : chunks[id].status \in Terminal
    /\ chunks[lastOp.chunk].status = "failed"

\* C9: when the ASR engine raised during the attempt that just ended, the
\* chunk is failed with the error text stored and the conversation is
\* re-derived
C9_AsrFailureFailsChunk ==
    (/\ lastOp.op \in {"completed", "failed"}
     /\ lastOp.events.asr_raised
     /\ lastOp.chunk \in DOMAIN chunks)
    => /\ chunks[lastOp.chunk].status = "failed"
       /\ chunks[lastOp.chunk].error_message = "asr error"
       /\ conv.exists = "yes" =>
            /\ conv.total_duration_sec = TotalDuration(chunks)
            /\ \/ conv.status = "recording"
               \/ conv.status = ExpectedStatus(conv.status, StatusesOf(chunks))

\* C10: when the diarization engine failed after the ASR engine produced a
\* transcript, the attempt ends with the chunk completed, a transcript text
\* and the empty diarization result
C10_DiarizationFailureCompletes ==
    (/\ lastOp.op \in {"completed", "failed"}
     /\ lastOp.events.asr_produced
     /\ lastOp.events.diar_failed
     /\ lastOp.chunk \in DOMAIN chunks)
    => /\ chunks[lastOp.chunk].status = "completed"
       /\ chunks[lastOp.chunk].transcript_text # NullText
       /\ chunks[lastOp.chunk].transcript_segments = EmptyDiarization

\* C11: when the probed duration is under 0.5 s (0.0 of a failed probe
\* included), either entry point returns text "", no segments and the probed
\* duration, and neither the language detector nor the ASR engine nor the
\* diarization engine was called
C11_ShortAudioShortCircuits ==
    (/\ call.fn \in PipelineFunctions
     /\ call.pc = "done"
     /\ call.probe < MinDuration)
    => /\ ~call.result.raised
       /\ call.result.text = ""
       /\ call.result.segments = << >>
       /\ call.result.duration = call.probe
       /\ call.result.events.asr_languages = {}
       /\ ~call.result.events.asr_raised
       /\ ~call.result.events.detect_called
       /\ ~call.result.events.diar_called

\* the diarized entry point returned for a converted .webm file of 0.4 s
C11_Witness ==
    /\ call.fn = "transcribe_with_diarization"
    /\ call.pc = "done"
    /\ call.webm
    /\ call.probe = MinDuration - 1
    /\ call.made # {}
    /\ call.result.transcript_segments = EmptyDiarization

\* C12: when a pipeline call has returned or raised, no temporary file
\* created in it by conversion, normalization or trimming is left on disk
C12_TempFilesDeleted ==
    (call.fn \in PipelineFunctions /\ call.pc = "done")
    => call.existing = {}

\* the diarization engine failed with three temporary files on disk, the
\* fallback created three more and then raised
C12_Witness ==
    /\ call.fn = "transcribe_with_diarization"
    /\ call.pc = "done"
    /\ call.result.events.diar_failed
    /\ call.result.raised
    /\ Cardinality(call.temp_files) = 3
    /\ Cardinality(call.made) = 6

\* C13: when the ASR output of the attempt that just completed was classified
\* as a hallucination, the chunk is stored with an empty text and with its
\* hallucination flag set
C13_HallucinationFlagged ==
    (/\ lastOp.op = "completed"
     /\ lastOp.events.filtered
     /\ lastOp.chunk \in DOMAIN chunks)
    => /\ chunks[lastOp.chunk].transcript_text = ""
       /\ chunks[lastOp.chunk].is_hallucination

\* C14: a retry is accepted only for a completed or failed chunk; asked for a
\* pending or processing chunk it is rejected, changes no field of the chunk
\* or of the conversation and starts no task
C14_RetryOnlyFromTerminal ==
    [][\A id \in ChunkIds :
         (/\ lastOp'.op \in {"retry", "retry_rejected"}
          /\ lastOp'.chunk = id
          /\ id \in DOMAIN chunks)
         => IF chunks[id].status \in Terminal
            THEN lastOp'.op = "retry"
            ELSE /\ lastOp'.op = "retry_rejected"
                 /\ chunks' = chunks
                 /\ conv' = conv
                 /\ tasks' = tasks]_vars

\* a retry was just rejected for a chunk that is being processed
C14_Witness ==
    /\ lastOp.op = "retry_rejected"
    /\ lastOp.chunk \in ChunksOf(chunks)
    /\ chunks[lastOp.chunk].status = "processing"
    /\ conv.status = "processing"

\* C15: the chunk a retry was just applied to is pending, with its error
\* message, its transcript text and its completion timestamp cleared
C15_RetryResets ==
    (lastOp.op = "retry" /\ lastOp.chunk \in DOMAIN chunks)
    => /\ chunks[lastOp.chunk].status = "pending"
       /\ chunks[lastOp.chunk].error_message = NullText
       /\ chunks[lastOp.chunk].transcript_text = NullText
       /\ chunks[lastOp.chunk].completed_at = FALSE

\* the retry found the chunk failed: it never completed (no duration stored),
\* and its sibling is still completed
C15_Witness ==
    /\ lastOp.op = "retry"
    /\ lastOp.chunk \in ChunksOf(chunks)
    /\ chunks[lastOp.chunk].status = "pending"
    /\ chunks[lastOp.chunk].duration_sec = NoDuration
    /\ "completed" \in StatusesOf(chunks)

\* C16: after a retry, and after an attempt that ended in failed, no result
\* field of the chunk holds a value (any value there is from an earlier
\* attempt); after an attempt that completed on the plain path there is no
\* speaker-segment payload
C16_RetryClearsResults ==
    (lastOp.chunk \in DOMAIN chunks)
    => /\ lastOp.op \in {"retry", "failed"}
          => /\ chunks[lastOp.chunk].transcript_text = NullText
             /\ chunks[lastOp.chunk].duration_sec = NoDuration
             /\ chunks[lastOp.chunk].is_hallucination = FALSE
             /\ chunks[lastOp.chunk].detected_language = NullText
             /\ chunks[lastOp.chunk].transcript_segments = NullText
       /\ (lastOp.op = "completed" /\ ~lastOp.events.diarized_path)
          => chunks[lastOp.chunk].transcript_segments = NullText

\* C17: a derivation pass applied twice to the same chunks gives the status
\* and the total duration of the first pass again, for the pass of the
\* background task and for the one of ConversationService
C17_DerivationIdempotent ==
    (conv.exists = "yes")
    => LET once == RefreshConversationStatus(conv, chunks)
           twice == RefreshConversationStatus(once, chunks)
           service_once == RefreshStatus(conv, chunks)
           service_twice == RefreshStatus(service_once, chunks)
       IN /\ twice.status = once.status
          /\ twice.total_duration_sec = once.total_duration_sec
          /\ service_twice.status = service_once.status
          /\ service_twice.total_duration_sec = service_once.total_duration_sec

\* a pass just ran after a completion and set failed and a positive total
\* duration; the chunk set is as that pass saw it
C17_Witness ==
    /\ lastOp.op = "completed"
    /\ lastOp.chunk \in ChunksOf(chunks)
    /\ conv.exists = "yes"
    /\ conv.status = "failed"
    /\ conv.total_duration_sec > 0

\* C18: the language handed to the ASR engine in the attempt that just ended,
\* and the source language reported when it completed, is en or he
C18_LanguageRestricted ==
    (lastOp.op \in {"completed", "failed"})
    => /\ lastOp.events.asr_languages \subseteq SupportedLanguages
       /\ lastOp.op = "completed" => lastOp.source_language \in SupportedLanguages

\* C19: the detected language stored for the attempt that just completed is
\* the source language the pipeline reported for it
C19_StoredSourceLanguage ==
    (lastOp.op = "completed" /\ lastOp.chunk \in DOMAIN chunks)
    => chunks[lastOp.chunk].detected_language = lastOp.source_language

\* C20: the speaker assigned to a segment is the label of the first turn in
\* list order whose overlap max(0, min(ends) - max(starts)) with the segment
\* is the largest, and UNKNOWN when no turn overlaps it
C20_SpeakerByMaxOverlap ==
    (call.fn = "_find_speaker_for_segment" /\ call.pc = "done")
    => LET turns == call.diarization_segments
           overlap(i) ==
               Max(0, Min(call.end, turns[i].end) - Max(call.start, turns[i].start))
       IN IF \A i \in DOMAIN turns : overlap(i) = 0
          THEN call.speaker = "UNKNOWN"
          ELSE \E i \in DOMAIN turns :
                 /\ \A j \in DOMAIN turns : overlap(j) <= overlap(i)
                 /\ \A j \in DOMAIN turns : j < i => overlap(j) < overlap(i)
                 /\ call.speaker = turns[i].speaker

\* segment [1, 3] against the turns [0, 2] and [2, 4] of two speakers: both
\* overlap it by 1 and the first one is assigned
C20_Witness ==
    /\ call.fn = "_find_speaker_for_segment"
    /\ call.pc = "done"
    /\ call.start = 1
    /\ call.end = 3
    /\ call.diarization_segments =
         <<[start |-> 0, end |-> 2, speaker |-> "SPEAKER_01"],
           [start |-> 2, end |-> 4, speaker |-> "SPEAKER_00"]>>
    /\ call.speaker = "SPEAKER_01"

\* ---------------------------------------------------------------------------
\* C21: consolidation merges every maximal run of consecutive segments of
\* one speaker into one paragraph: there is one paragraph per run, in
\* order, with the run's speaker, the run's texts joined by single spaces,
\* the start of the run's first segment and the end of its last one.
RunStarts(segments) ==
    {i \in 1..Len(segments) :
        i = 1 \/ segments[i].speaker # segments[i - 1].speaker}

RunEnd(segments, i) ==
    CHOOSE j \in i..Len(segments) :
        /\ \A k \in i..j : segments[k].speaker = segments[i].speaker
        /\ j = Len(segments) \/ segments[j + 1].speaker # segments[i].speaker

C21_RunsMerged ==
    (call.fn = "_consolidate_speaker_segments" /\ call.pc = "done") =>
        LET segments == call.segments
            starts == RunStarts(segments)
        IN /\ Len(call.consolidated) = Cardinality(starts)
           /\ \A i \in starts :
                LET k == Cardinality({s \in starts : s <= i})
                    j == RunEnd(segments, i)
                IN call.consolidated[k] =
                     [start |-> segments[i].start,
                      end |-> segments[j].end,
                      speaker |-> segments[i].speaker,
                      text |-> JoinTexts([n \in 1..(j - i + 1) |->
                                            segments[i + n - 1].text])]

\* two segments of one speaker with different ends, then another speaker
C21_Witness ==
    /\ call.fn = "_consolidate_speaker_segments"
    /\ call.pc = "done"
    /\ Len(call.segments) = 3
    /\ call.segments[1].speaker = call.segments[2].speaker
    /\ call.segments[2].end # call.segments[1].end
    /\ call.segments[3].speaker # call.segments[2].speaker
    /\ Len(call.consolidated) = 2
    /\ call.consolidated[1].text = "hi ok"

\* ---------------------------------------------------------------------------
\* C22: the filter answers true for every text that is a denylist phrase up
\* to the case of its letters and one trailing period, and false for the
\* empty text.
SameIgnoringCase(text, phrase) ==
    /\ Len(text) = Len(phrase)
    /\ \A i \in 1..Len(text) : LowerOf[text[i]] = phrase[i]

IsDenylisted(text) ==
    \E phrase \in PhraseTexts :
        \/ SameIgnoringCase(text, phrase)
        \/ /\ text # << >>
           /\ text[Len(text)] = "."
           /\ SameIgnoringCase(SubSeq(text, 1, Len(text) - 1), phrase)

C22_DenylistFlagged ==
    (call.fn = "_is_likely_hallucination" /\ call.pc = "done") =>
        /\ IsDenylisted(call.text) => call.result
        /\ call.text = << >> => ~call.result

\* "THANK YOU." is flagged
C22_Witness ==
    /\ call.fn = "_is_likely_hallucination"
    /\ call.pc = "done"
    /\ call.text = ToUpper(Spelling["thank you"]) \o <<".">>
    /\ call.result

\* ---------------------------------------------------------------------------
\* C23: the filter answers true for every text of at least 4 words in which
\* one word, compared without its non-alphanumeric characters and without
\* case, occurs at least 4 times and is more than 40% of the words; a text
\* that matches none of the three rules, such as "We discussed the quarterly
\* budget and timeline", gets false.
WordsOf(text) == Split(ToLower(text))

HasDominantWord(text) ==
    LET words == WordsOf(text)
    IN /\ Len(words) >= 4
       /\ \E i \in 1..Len(words) :
            LET same == {j \in 1..Len(words) :
                            CleanWord(words[j]) = CleanWord(words[i])}
            IN /\ CleanWord(words[i]) # << >>
               /\ Cardinality(same) >= 4
               /\ 10 * Cardinality(same) > 4 * Len(words)

\* the first N words of the text occur at least 3 times in it and cover
\* more than half of its characters
RepeatsPhrase(text, N) ==
    LET text_lower == Strip(ToLower(text))
        words == WordsOf(text)
        phrase == JoinWords(SubSeq(words, 1, N))
        occurrences == Count(text_lower, phrase)
    IN /\ N <= Len(words)
       /\ occurrences >= 3
       /\ 2 * Len(phrase) * occurrences > Len(text_lower)

MatchesARule(text) ==
    \/ IsDenylisted(Strip(text))
    \/ HasDominantWord(text)
    \/ Len(WordsOf(text)) >= 6 /\ \E N \in 1..4 : RepeatsPhrase(text, N)

C24_RepeatedPhraseFlagged ==
    (call.fn = "_is_likely_hallucination" /\ call.pc = "done") =>
        \A N \in 1..4 :
            (Len(WordsOf(call.text)) >= 6 /\ RepeatsPhrase(call.text, N))
            => call.result

\* ---------------------------------------------------------------------------
\* C25: for a measured mean loudness, normalization is skipped exactly when
\* the distance between the target of -20 dB and the mean is below 10 dB;
\* otherwise the gain applied is target minus mean, and 50 dB when that
\* difference is above 50 dB.
C25_GainFromMean ==
    (call.fn = "normalize_audio" /\ call.pc = "done") =>
        LET difference == (0 - 20) - call.mean_volume
            distance == IF difference < 0 THEN 0 - difference ELSE difference
        IN /\ call.skipped <=> distance < 10
           /\ ~call.skipped =>
                call.gain = IF difference > 50 THEN 50 ELSE difference

\* a mean of -75 dB gets 50 dB, not 55 dB
C25_Witness ==
    /\ call.fn = "normalize_audio"
    /\ call.pc = "done"
    /\ call.mean_volume = 0 - 75
    /\ ~call.skipped
    /\ call.gain = 50

\* ---------------------------------------------------------------------------
\* C26: within the conversation no two chunks carry the same ordering index,
\* whatever add-chunk requests were made.
C26_IndexUnique ==
    \A a \in ChunksOf(chunks) : \A b \in ChunksOf(chunks) :
        a # b => chunks[a].chunk_index # chunks[b].chunk_index

\* ---------------------------------------------------------------------------
\* C27: once the conversation is deleted no chunk record refers to it, also
\* when an add-chunk request was between its lookup and its insert or a
\* background task of one of its chunks was running at the deletion.
C27_NoChunkOfDeleted ==
    conv.exists = "deleted" =>
        \A id \in DOMAIN chunks :
            chunks[id].conversation_id # TheConversation

\* ---------------------------------------------------------------------------
\* C28: in the diarized path the diarization engine gets the path the ASR
\* engine got, and the temporary files of the invocation are all on disk
\* while the engines run: they are deleted only after the try block.
C28_SameConditionedFile ==
    (/\ call.fn = "transcribe_with_diarization"
     /\ call.pc \in {"done", "except"}
     /\ call.result.events.diar_called)
    => /\ call.asr_path # NullText
       /\ call.diar_path = call.asr_path
       /\ Tagged(call.fn, call.temp_files) \subseteq call.engine_files
       /\ call.asr_path # "original" =>
            <<call.fn, call.asr_path>> \in call.engine_files
       /\ call.pc = "except" =>
            Tagged(call.fn, call.temp_files) \subseteq call.existing

\* both engines ran on the trimmed file of a converted and normalized
\* recording, and the three files were deleted afterwards
C28_Witness ==
    /\ call.fn = "transcribe_with_diarization"
    /\ call.pc = "done"
    /\ call.result.events.diar_called
    /\ ~call.result.events.diar_failed
    /\ call.asr_path = "trimmed"
    /\ call.diar_path = "trimmed"
    /\ Cardinality(call.engine_files) = 3
    /\ call.existing = {}

\* ---------------------------------------------------------------------------
\* C29: when a temporary file cannot be deleted, the call of either entry
\* point still ends with the value its return statement produced, and so
\* does not raise because of the deletion.
C29_UnlinkFailureAbsorbed ==
    (/\ call.fn \in PipelineFunctions
     /\ call.pc = "done"
     /\ call.unlink = "fails")
    => call.result = call.returned

\* ---------------------------------------------------------------------------
\* C30: whichever of conversion, normalization and trimming fail, the
\* engines get the file of the last stage that returned one, or the
\* submitted file when none did, and the call raises only when an engine
\* raised.
LastStage(temp_files) ==
    IF "trimmed" \in temp_files THEN "trimmed"
    ELSE IF "normalized" \in temp_files THEN "normalized"
    ELSE IF "wav" \in temp_files THEN "wav"
    ELSE "original"

C30_StageFallsBack ==
    (/\ call.fn \in PipelineFunctions
     /\ call.pc \in {"done", "except"})
    => /\ call.probe >= MinDuration =>
            call.asr_path = LastStage(call.temp_files)
       /\ call.result.raised =>
            call.result.events.asr_raised \/ call.result.events.diar_failed

\* conversion, normalization and trimming all failed and the plain path
\* returned the transcript of the submitted file
C30_Witness ==
    /\ call.fn = "transcribe"
    /\ call.pc = "done"
    /\ call.made = Tagged("transcribe", {"wav", "normalized", "trimmed"})
    /\ call.temp_files = {}
    /\ call.asr_path = "original"
    /\ ~call.result.raised
    /\ call.result.text = "hello there"

\* ---------------------------------------------------------------------------
\* C31: no call of the pipeline puts the submitted file among its temporary
\* files or unlinks it, also when conversion, normalization or trimming
\* failed and trimming handed back the path it was given.
C31_OriginalNeverDeleted ==
    (call.fn \in PipelineFunctions /\ call.pc \in {"done", "except"})
    => /\ "original" \notin call.temp_files
       /\ "original" \notin call.unlinked

\* trimming failed on a file that was neither converted nor normalized: it
\* handed back the submitted path, and the call has ended with no file
\* unlinked
C31_Witness ==
    /\ call.fn = "transcribe"
    /\ call.pc = "done"
    /\ call.trim_silence
    /\ call.made = Tagged("transcribe", {"trimmed"})
    /\ call.asr_path = "original"
    /\ call.temp_files = {}
    /\ call.unlinked = {}
    /\ ~call.result.raised

\* ---------------------------------------------------------------------------
\* C32: a derivation pass on a completed conversation whose chunks are all
\* completed and whose completion timestamp is set leaves the timestamp as
\* it was.
C32_StampKept ==
    ( /\ call.fn = "derive"
      /\ call.pass # "none"
      /\ StatusesOf(call.chunks) = {"completed"}
      /\ call.before.status = "completed"
      /\ call.before.completed_at # NoStamp )
    => call.conversation.completed_at = call.before.completed_at

\* ---------------------------------------------------------------------------
\* C33: after a pass of any of the entry points the stored total duration is
\* the sum of the chunks' durations (null as 0), whatever the status of the
\* conversation and also with no chunks.
C33_TotalRecomputed ==
    (call.fn = "derive" /\ call.pass # "none")
    => call.conversation.total_duration_sec = TotalDuration(call.chunks)

\* ---------------------------------------------------------------------------
\* C38: on a conversation that is not recording the three implementations of
\* the derivation pass compute the same status and the same total duration,
\* for every list of chunk statuses and durations.
C38_DerivationsAgree ==
    (call.fn = "derive" /\ call.conversation.status # "recording")
    => LET cv == call.conversation
           a == RefreshStatusAt(cv, call.chunks, call.now)
           b == RefreshConversationStatusAt(cv, call.chunks, call.now)
           c == RefreshEndpointAt(cv, call.chunks, call.now)
       IN /\ a.status = b.status /\ b.status = c.status
          /\ a.total_duration_sec = b.total_duration_sec
          /\ b.total_duration_sec = c.total_duration_sec

\* a pass has run on a conversation with a failed and a pending chunk, the
\* case in which the order of the tests differs between the implementations
C38_Witness ==
    /\ call.fn = "derive"
    /\ call.pass = "refresh_conversation_status"
    /\ StatusesOf(call.chunks) = {"failed", "pending"}
    /\ call.before.status = "completed"
    /\ call.conversation.status = "processing"
    /\ call.before.total_duration_sec = 5
    /\ call.conversation.total_duration_sec = 2

\* ---------------------------------------------------------------------------
\* C34: for each chunk at most one task is between the commit of status
\* processing and the write of the terminal status, and while one is there
\* the chunk is in processing, the status in which a retry is refused.
C34_OneTaskInFlight ==
    \A id \in ChunkIds :
        LET running == {t \in tasks : t.chunk = id /\ t.pc = "running"}
        IN /\ Cardinality(running) <= 1
           /\ (running # {} /\ id \in DOMAIN chunks)
                  => chunks[id].status = "processing"

\* a retried chunk, which still holds the duration its first attempt stored,
\* is being processed by its second task
C34_Witness ==
    \E id \in ChunkIds :
        /\ id \in DOMAIN chunks
        /\ chunks[id].status = "processing"
        /\ chunks[id].duration_sec # NoDuration
        /\ \E t \in tasks : t.chunk = id /\ t.pc = "running"

\* ---------------------------------------------------------------------------
\* C35: a task that runs for a standalone chunk holding the speaker-segment
\* payload of an earlier attempt, that is the task of a retry of a chunk
\* uploaded with a speaker count, runs with a speaker count as well.
C35_RetryKeepsDiarization ==
    \A t \in tasks :
        ( /\ t.pc = "running"
          /\ t.chunk \in DOMAIN chunks
          /\ chunks[t.chunk].conversation_id = NoConversation
          /\ chunks[t.chunk].transcript_segments # NullText )
        => t.eff # 0

\* ---------------------------------------------------------------------------
\* C37: a completed chunk has no error message and a completion timestamp,
\* a failed chunk has an error message, a pending chunk has neither.
C37_StatusFields ==
    \A id \in DOMAIN chunks :
        LET ch == chunks[id]
        IN /\ ch.status = "completed"
                => ch.error_message = NullText /\ ch.completed_at
           /\ ch.status = "failed" => ch.error_message # NullText
           /\ ch.status = "pending"
                => ch.error_message = NullText /\ ~ch.completed_at

\* one chunk completed, and another failed in the attempt of a retry: it
\* holds the duration of its earlier, completed attempt
C37_Witness ==
    \E a, b \in DOMAIN chunks :
        /\ chunks[a].status = "completed"
        /\ chunks[a].completed_at
        /\ chunks[b].status = "failed"
        /\ chunks[b].error_message # NullText
        /\ chunks[b].duration_sec # NoDuration

\* ---------------------------------------------------------------------------
\* C36: when the ASR engine returned in transcribe_with_diarization and the
\* text is empty after the hallucination filter or there are no segments,
\* the diarization engine is not called and the call returns the result
\* with the empty diarization payload.
C36_DiarizationSkipped ==
    ( /\ call.fn = "transcribe_with_diarization"
      /\ call.whisper_result.ran
      /\ \/ call.whisper_result.text = ""
         \/ call.whisper_result.segments = << >> )
    => /\ call.pc = "done"
       /\ call.diar_path = NullText
       /\ ~call.result.events.diar_called
       /\ ~call.result.raised
       /\ call.result.text = call.whisper_result.text
       /\ call.result.transcript_segments = EmptyDiarization

\* the ASR engine returned a denylisted phrase with segments: the filter
\* emptied the text and the call has returned
C36_Witness ==
    /\ call.fn = "transcribe_with_diarization"
    /\ call.pc = "done"
    /\ call.whisper_result.ran
    /\ call.whisper_result.text = ""
    /\ call.whisper_result.segments # << >>
    /\ call.result.events.filtered
    /\ call.result.transcript_segments = EmptyDiarization

\* ---------------------------------------------------------------------------
\* C39: in the result of merge_with_transcript no two adjacent consolidated
\* segments have the same speaker, the space-joined texts of the
\* consolidated segments equal the space-joined texts of raw_segments, and
\* raw_segments holds, in input order, the ASR segments whose text is not
\* blank.
C39_LosslessGrouping ==
    (call.fn = "merge_with_transcript" /\ call.pc = "done")
    => LET consolidated == call.result.segments
           raw == call.result.raw_segments
           ws == call.whisper_segments
           kept == {i \in DOMAIN ws :
                       \E k \in DOMAIN ws[i].text : ws[i].text[k] # " "}
       IN /\ \A i \in 1..(Len(consolidated) - 1) :
                consolidated[i].speaker # consolidated[i + 1].speaker
          /\ JoinTexts([i \in DOMAIN consolidated |-> consolidated[i].text])
               = JoinTexts([i \in DOMAIN raw |-> raw[i].text])
          /\ Len(raw) = Cardinality(kept)
          /\ \A i \in kept :
                raw[Cardinality({j \in kept : j <= i})].text
                    = AsString(Strip(ws[i].text))

\* three ASR segments with text around blanks, the first two outside every
\* turn and the third in the turn of a speaker: two consolidated segments
C39_Witness ==
    /\ call.fn = "merge_with_transcript"
    /\ call.pc = "done"
    /\ Len(call.whisper_segments) = 3
    /\ Len(call.result.raw_segments) = 3
    /\ Len(call.result.segments) = 2
    /\ call.result.segments[1].text = "hi ok"
    /\ call.result.segments[2].text = "hi"
    /\ call.result.segments[1].speaker = "UNKNOWN"

====
